---- MODULE Spec2Model ----
(***************************************************************************)
(* Warehouse order-picking ETL: the curation stage (src/src/curation.py)   *)
(* and the data-mart stage (src/src/data_marts.py).                        *)
(*                                                                         *)
(* A table (DataFrame / parquet file) is a sequence of rows; a row is a    *)
(* record whose DOMAIN is the set of column names.  A directory is a       *)
(* function from file names to tables; a file exists when its name is in   *)
(* the DOMAIN.  A date is a number of days since 1970-01-01 and a          *)
(* timestamp a number of hours since 1970-01-01 00:00.  A nullable SQL     *)
(* value is <<>> (NULL) or <<v>>.                                          *)
(***************************************************************************)
EXTENDS Integers, Sequences, FiniteSets, Bags

VARIABLES staging, curation, data_mart, pc_curation, pc_data_mart, frames,
          failing_write

vars == <<staging, curation, data_mart, pc_curation, pc_data_mart, frames,
          failing_write>>

---------------------------------------------------------------------------
(* Generic helpers on sequences and directories                            *)

Range(s) == {s[i] : i \in DOMAIN s}

RECURSIVE SumSeq(_)
SumSeq(s) == IF s = <<>> THEN 0 ELSE Head(s) + SumSeq(Tail(s))

\* The sum of the values of a function with a finite domain.
RECURSIVE SumFn(_)
SumFn(f) ==
    IF DOMAIN f = {} THEN 0
    ELSE LET x == CHOOSE y \in DOMAIN f : TRUE
         IN  f[x] + SumFn([y \in (DOMAIN f) \ {x} |-> f[y]])

RECURSIVE SeqBag(_)
SeqBag(s) == IF s = <<>> THEN EmptyBag ELSE SeqBag(Tail(s)) (+) SetToBag({Head(s)})

\* All orderings of the index set of a sequence of length n.
IndexOrders(n) == {p \in [1..n -> 1..n] : \A i, j \in 1..n : i # j => p[i] # p[j]}

\* os.path.exists(path.join(dir, name))
Exists(dir, name) == name \in DOMAIN dir

\* DataFrame.to_parquet(path): creates or replaces the whole file.
to_parquet(dir, name, df) ==
    [f \in (DOMAIN dir) \cup {name} |-> IF f = name THEN df ELSE dir[f]]

NoFiles == [f \in {} |-> <<>>]

NULL == <<>>
Some(v) == <<v>>

---------------------------------------------------------------------------
(* Calendar arithmetic behind pandas' .dt accessors and strftime           *)

DaysFromCivil(y, m, d) ==
    LET yy  == IF m <= 2 THEN y - 1 ELSE y
        era == yy \div 400
        yoe == yy - era * 400
        mp  == IF m > 2 THEN m - 3 ELSE m + 9
        doy == (153 * mp + 2) \div 5 + d - 1
        doe == yoe * 365 + yoe \div 4 - yoe \div 100 + doy
    IN  era * 146097 + doe - 719468

CivilFromDays(z) ==
    LET zz  == z + 719468
        era == zz \div 146097
        doe == zz - era * 146097
        yoe == (doe - doe \div 1460 + doe \div 36524 - doe \div 146096) \div 365
        doy == doe - (365 * yoe + yoe \div 4 - yoe \div 100)
        mp  == (5 * doy + 2) \div 153
        d   == doy - (153 * mp + 2) \div 5 + 1
        m   == IF mp < 10 THEN mp + 3 ELSE mp - 9
        y   == yoe + era * 400 + (IF m <= 2 THEN 1 ELSE 0)
    IN  [year |-> y, month |-> m, day |-> d]

dt_year(day)    == CivilFromDays(day).year
dt_month(day)   == CivilFromDays(day).month
dt_quarter(day) == (dt_month(day) - 1) \div 3 + 1

\* Monday = 0 .. Sunday = 6 (1970-01-01 was a Thursday).
dt_weekday(day) == (day + 3) % 7

\* Zero-based day of the year.
dt_yday(day) == day - DaysFromCivil(dt_year(day), 1, 1)

\* Timestamp -> calendar date (Series.dt.date) and hour of day.
dt_date(ts) == ts \div 24
dt_hour(ts) == ts % 24

Timestamp(y, m, d, h) == DaysFromCivil(y, m, d) * 24 + h

Digits == <<"0", "1", "2", "3", "4", "5", "6", "7", "8", "9">>

\* str(n) for n >= 0, and n printed with at least two / four digits.
RECURSIVE IntToStr(_)
IntToStr(n) == IF n < 10 THEN Digits[n + 1]
               ELSE IntToStr(n \div 10) \o Digits[(n % 10) + 1]

Pad2(n) == IF n < 10 THEN "0" \o IntToStr(n) ELSE IntToStr(n)
Pad4(n) == IF n < 10 THEN "000" \o IntToStr(n)
           ELSE IF n < 100 THEN "00" \o IntToStr(n)
           ELSE IF n < 1000 THEN "0" \o IntToStr(n)
           ELSE IntToStr(n)

\* strftime directives used by the curation stage.
strftime_Y(day) == Pad4(dt_year(day))
strftime_m(day) == Pad2(dt_month(day))
\* %W: week of the year, Monday first; days before the first Monday are week 00.
strftime_W(day) == Pad2((dt_yday(day) + 7 - dt_weekday(day)) \div 7)

---------------------------------------------------------------------------
(* File names (src/src/enums.py)                                           *)

StagingFileNames ==
    [pick_data         |-> "pick_data.parquet",
     product_details   |-> "product_details.parquet",
     warehouse_section |-> "warehouse_sections.parquet"]

CurationFileNames ==
    [f_order_picks       |-> "f_order_picks.parquet",
     f_returns           |-> "f_returns.parquet",
     f_pick_errors       |-> "f_pick_errors.parquet",
     d_date              |-> "d_date.parquet",
     d_product_details   |-> "d_product_details.parquet",
     d_warehouse_section |-> "d_warehouse_section.parquet"]

---------------------------------------------------------------------------
(* Frames                                                                  *)

\* DataFrame column assignment df[c] = v, on one row.
WithColumn(row, c, v) ==
    [k \in (DOMAIN row) \cup {c} |-> IF k = c THEN v ELSE row[k]]

---------------------------------------------------------------------------
(* create_d_date                                                           *)

\* Variant: the half-year is the quarter halved and rounded down.
d_date_row_half_rounded_down(day) ==
    [date      |-> day,
     year      |-> dt_year(day),
     week      |-> strftime_Y(day) \o "_" \o strftime_W(day),
     month     |-> strftime_Y(day) \o "_" \o strftime_m(day),
     quarter   |-> IntToStr(dt_year(day)) \o "_Q" \o IntToStr(dt_quarter(day)),
     year_half |-> IntToStr(dt_year(day)) \o "_H"
                       \o IntToStr(dt_quarter(day) \div 2)]

d_date_row(day) ==
    [date      |-> day,
     year      |-> dt_year(day),
     week      |-> strftime_Y(day) \o "_" \o strftime_W(day),
     month     |-> strftime_Y(day) \o "_" \o strftime_m(day),
     quarter   |-> IntToStr(dt_year(day)) \o "_Q" \o IntToStr(dt_quarter(day)),
     year_half |-> IntToStr(dt_year(day)) \o "_H"
                       \o IntToStr((dt_quarter(day) + 1) \div 2)]

\* Variant: the end of the range is left out.
date_range_half_open(start_date, end_date) ==
    IF end_date <= start_date THEN <<>>
    ELSE [i \in 1..(end_date - start_date) |-> start_date + i - 1]

\* pd.date_range(start, end): every day from start to end, both included.
date_range(start_date, end_date) ==
    IF end_date < start_date THEN <<>>
    ELSE [i \in 1..(end_date - start_date + 1) |-> start_date + i - 1]

create_d_date(start_date, end_date) ==
    LET days == date_range(start_date, end_date)
    IN  [i \in DOMAIN days |-> d_date_row(days[i])]

---------------------------------------------------------------------------
(* curate_pick_data                                                        *)

\* Variant: the key is the order number alone.
sk_order_id_without_year(row) == row.order_number

\* order_number + "_" + strftime("%Y") of the pick timestamp.
sk_order_id(row) ==
    row.order_number \o "_" \o strftime_Y(dt_date(row.pick_timestamp))

\* Variant: the rows are numbered in the order in which they are staged.
sort_values_skipped(df) == {[i \in DOMAIN df |-> i]}

\* sort_values("pick_timestamp"): the default sort kind is not stable, so
\* every ordering of the rows that is ascending in the timestamp is possible.
sort_values(df) ==
    {p \in IndexOrders(Len(df)) :
        \A i, j \in DOMAIN df :
            i < j => df[p[i]].pick_timestamp <= df[p[j]].pick_timestamp}

\* groupby(["sk_order_id", "origin"]).cumcount() + 1 along the sorted order
\* p, aligned back on the row index: the value for row i.
cumcount_plus_1(df, p, i) ==
    LET k == CHOOSE k \in DOMAIN df : p[k] = i
    IN  Cardinality({k2 \in 1..(k - 1) :
            /\ df[p[k2]].sk_order_id = df[i].sk_order_id
            /\ df[p[k2]].origin = df[i].origin}) + 1

with_sk_order_id(df) ==
    [i \in DOMAIN df |-> WithColumn(df[i], "sk_order_id", sk_order_id(df[i]))]

with_sk_position_in_order(df, p) ==
    [i \in DOMAIN df |->
        WithColumn(df[i], "sk_position_in_order", cumcount_plus_1(df, p, i))]

IsError(row)    == row.pick_volume = 0
IsReturn(row)   == row.pick_volume < 0

\* Variant: the zero-volume rows are kept among the valid picks as well.
IsPositive_or_zero(row) == row.pick_volume >= 0

IsPositive(row) == row.pick_volume > 0

\* Variant: the volume of a return is written as staged.
negate_pick_volume_skipped(row) == row

\* returns_df["pick_volume"] = (-1) * returns_df["pick_volume"]
negate_pick_volume(row) == [row EXCEPT !.pick_volume = (-1) * row.pick_volume]

\* The mapper handed to returns_df.rename(...).
ReturnsRenameMapper ==
    [pick_volume    |-> "return_volume",
     pick_timestamp |-> "return_timestamp",
     pick_date      |-> "return_date"]

\* The table curate_pick_data writes as f_returns.  DataFrame.rename is
\* called with the mapper as its first positional argument, which relabels
\* the row index (no label of which is a column name), returns a new frame
\* and leaves returns_df as it was; the returned frame is dropped.
returns_table(picks_df) ==
    LET returns_df == SelectSeq(picks_df, IsReturn)
    IN  [i \in DOMAIN returns_df |-> negate_pick_volume(returns_df[i])]

---------------------------------------------------------------------------
(* Relational helpers for the data-mart queries.  A query result is a bag  *)
(* of rows: the order of the rows of a result is not modelled.             *)

\* The bag holding f[x] once for every x of the domain of the function f.
BagOfMap(f) ==
    [r \in {f[x] : x \in DOMAIN f} |-> Cardinality({x \in DOMAIN f : f[x] = r})]

\* Number of rows of a bag that lie in the set hits.
CountWhere(B, hits) ==
    BagCardinality([r \in hits \cap BagToSet(B) |-> B[r]])

\* L LEFT JOIN R ON on, with on the set of the pairs <<l, r>> that satisfy
\* the join condition: every matching pair <<l, <<r>>>>, and <<l, NULL>> for
\* an l that matches nothing.
LeftJoin(L, R, on) ==
    {<<pr[1], Some(pr[2])>> : pr \in on \cap (L \X R)}
        \cup {<<l, NULL>> : l \in {x \in L : \A r \in R : <<x, r>> \notin on}}

coalesce(v, default) == IF v = NULL THEN default ELSE v[1]

\* Variant: count(*) in place of sum(pick_volume).
count_star(rows) == Len(rows)

\* sum(pick_volume) over the rows of one group.
sum_pick_volume(rows) == SumSeq([i \in DOMAIN rows |-> rows[i].pick_volume])

\* df.merge(d_product_details, on="product_id", how="left"): the columns
\* taken from the right table are nullable.
RECURSIVE merge(_, _)
merge(left, right) ==
    IF left = <<>> THEN <<>>
    ELSE LET l == Head(left)
             match(r) == r.product_id = l.product_id
             m == SelectSeq(right, match)
             with(desc, grp) ==
                 WithColumn(WithColumn(l, "description", desc), "product_group", grp)
             rows == IF m = <<>> THEN <<with(NULL, NULL)>>
                     ELSE [i \in DOMAIN m |->
                              with(Some(m[i].description), Some(m[i].product_group))]
         IN  rows \o merge(Tail(left), right)

\* A column of the d_date side of a left join: NULL without a match.
d_date_col(d_date, m, c) == IF m = NULL THEN NULL ELSE Some(d_date[m[1]][c])

---------------------------------------------------------------------------
(* total_pick_volume and total_pick_volume_w_drill_down                    *)

common_drill_downs == <<"product_group", "origin", "warehouse_section">>

total_pick_volume(f_order_picks, d_date) ==
    LET agg_cte ==
            {[pick_date   |-> d,
              pick_volume |-> sum_pick_volume(
                                  SelectSeq(f_order_picks,
                                            LAMBDA r : r.pick_date = d))] :
                d \in {r.pick_date : r \in Range(f_order_picks)}}
        joined == LeftJoin(agg_cte, DOMAIN d_date,
                           {jp \in agg_cte \X DOMAIN d_date :
                               d_date[jp[2]].date = jp[1].pick_date})
        out(pr) ==
            [date        |-> d_date_col(d_date, pr[2], "date"),
             pick_volume |-> coalesce(Some(pr[1].pick_volume), 0),
             week        |-> d_date_col(d_date, pr[2], "week"),
             month       |-> d_date_col(d_date, pr[2], "month"),
             quarter     |-> d_date_col(d_date, pr[2], "quarter"),
             year_half   |-> d_date_col(d_date, pr[2], "year_half"),
             year        |-> d_date_col(d_date, pr[2], "year")]
    IN  BagOfMap([pr \in joined |-> out(pr)])

total_pick_volume_w_drill_down(f_order_picks, d_date, drill_down) ==
    LET agg_cte ==
            {[pick_date   |-> k[1],
              drill       |-> k[2],
              pick_volume |-> sum_pick_volume(
                                  SelectSeq(f_order_picks,
                                            LAMBDA r : /\ r.pick_date = k[1]
                                                       /\ r[drill_down] = k[2]))] :
                k \in {<<r.pick_date, r[drill_down]>> : r \in Range(f_order_picks)}}
        joined == LeftJoin(agg_cte, DOMAIN d_date,
                           {jp \in agg_cte \X DOMAIN d_date :
                               d_date[jp[2]].date = jp[1].pick_date})
        out(pr) ==
            WithColumn(
                [date        |-> d_date_col(d_date, pr[2], "date"),
                 pick_volume |-> coalesce(Some(pr[1].pick_volume), 0),
                 week        |-> d_date_col(d_date, pr[2], "week"),
                 month       |-> d_date_col(d_date, pr[2], "month"),
                 quarter     |-> d_date_col(d_date, pr[2], "quarter"),
                 year_half   |-> d_date_col(d_date, pr[2], "year_half"),
                 year        |-> d_date_col(d_date, pr[2], "year")],
                drill_down, pr[1].drill)
    IN  BagOfMap([pr \in joined |-> out(pr)])

---------------------------------------------------------------------------
(* total_orders_processed                                                  *)

\* Variant: COUNT(*) in place of COUNT(DISTINCT(sk_order_id)).
count_rows(f_order_picks, d) ==
    Cardinality({i \in DOMAIN f_order_picks : f_order_picks[i].pick_date = d})

\* COUNT(DISTINCT(sk_order_id)) over the rows picked on date d.
count_distinct_sk_order_id(f_order_picks, d) ==
    Cardinality({r.sk_order_id :
                    r \in {x \in Range(f_order_picks) : x.pick_date = d}})

total_orders_processed(f_order_picks, d_date) ==
    LET agg_cte ==
            {[pick_date    |-> d,
              order_volume |-> count_distinct_sk_order_id(f_order_picks, d)] :
                d \in {r.pick_date : r \in Range(f_order_picks)}}
        joined == LeftJoin(DOMAIN d_date, agg_cte,
                           {jp \in (DOMAIN d_date) \X agg_cte :
                               d_date[jp[1]].date = jp[2].pick_date})
        agg_col(m) == IF m = NULL THEN NULL ELSE Some(m[1].order_volume)
        out(pr) ==
            [date         |-> d_date[pr[1]].date,
             order_volume |-> coalesce(agg_col(pr[2]), 0),
             week         |-> d_date[pr[1]].week,
             month        |-> d_date[pr[1]].month,
             quarter      |-> d_date[pr[1]].quarter,
             year_half    |-> d_date[pr[1]].year_half,
             year         |-> d_date[pr[1]].year]
    IN  BagOfMap([pr \in joined |-> out(pr)])

---------------------------------------------------------------------------
(* pick_errors                                                             *)

\* select d_date.date, d_date.week, d_date.month, count(*)
\* from facts left join d_date on facts.pick_date = d_date.date group by 1, 2, 3
count_by_date_cte(facts, d_date, count_col) ==
    LET joined == LeftJoin(DOMAIN facts, DOMAIN d_date,
                           {jp \in (DOMAIN facts) \X (DOMAIN d_date) :
                               facts[jp[1]].pick_date = d_date[jp[2]].date})
        key(pr) == [date  |-> d_date_col(d_date, pr[2], "date"),
                    week  |-> d_date_col(d_date, pr[2], "week"),
                    month |-> d_date_col(d_date, pr[2], "month")]
    IN  {WithColumn(k, count_col,
                    Cardinality({pr \in joined : key(pr) = k})) :
            k \in {key(pr) : pr \in joined}}

\* SQL equality of two nullable values: never true when one side is NULL.
sql_eq(a, b) == a # NULL /\ b # NULL /\ a = b

pick_errors(f_order_picks, f_pick_errors, d_date) ==
    LET total_errors_cte == count_by_date_cte(f_pick_errors, d_date, "total_errors")
        total_picks_cte  == count_by_date_cte(f_order_picks, d_date, "total_picks")
        joined == LeftJoin(total_errors_cte, total_picks_cte,
                           {jp \in total_errors_cte \X total_picks_cte :
                               /\ sql_eq(jp[1].date, jp[2].date)
                               /\ sql_eq(jp[1].week, jp[2].week)
                               /\ sql_eq(jp[1].month, jp[2].month)})
        out(pr) ==
            WithColumn(pr[1], "total_picks",
                       IF pr[2] = NULL THEN NULL ELSE Some(pr[2][1].total_picks))
    IN  BagOfMap([pr \in joined |-> out(pr)])

---------------------------------------------------------------------------
(* top_n_products_weekly and top_n_products_weekly_w_drill_down            *)

\* total_picks_cte: f_order_picks left join d_date on pick_date = date,
\* grouped by d_date.week, product_id and the columns of group_cols, with
\* count(*) as total_picks.
total_picks_cte(f_order_picks, d_date, group_cols) ==
    LET joined == LeftJoin(DOMAIN f_order_picks, DOMAIN d_date,
                           {jp \in (DOMAIN f_order_picks) \X (DOMAIN d_date) :
                               f_order_picks[jp[1]].pick_date = d_date[jp[2]].date})
        key(pr) ==
            [c \in {"week", "product_id"} \cup group_cols |->
                IF c = "week" THEN d_date_col(d_date, pr[2], "week")
                ELSE f_order_picks[pr[1]][c]]
    IN  {WithColumn(k, "total_picks",
                    Cardinality({pr \in joined : key(pr) = k})) :
            k \in {key(pr) : pr \in joined}}

\* row_number() over (partition by partition_cols order by total_picks desc):
\* every numbering of the rows that counts each partition from 1 upwards and
\* never puts a smaller total_picks before a larger one.  The order among
\* rows of equal total_picks is not determined by the query.
row_number(cte, partition_cols) ==
    LET part(r) == [c \in partition_cols |-> r[c]]
        P(r)    == {x \in cte : part(x) = part(r)}
    IN  {rank \in [cte -> 1..Cardinality(cte)] :
            \A r \in cte :
               /\ rank[r] <= Cardinality(P(r))
               /\ \A x \in P(r) :
                     /\ x # r => rank[x] # rank[r]
                     /\ x.total_picks > r.total_picks => rank[x] < rank[r]}

\* Variant: the rows of rank 1 only.
where_rank_is_1(cte, rank, n) == {r \in cte : rank[r] <= 1}

\* where rank <= n
where_rank_le(cte, rank, n) == {r \in cte : rank[r] <= n}

\* The tables the query may return, one for every numbering of the rows.
top_n_products_weekly(f_order_picks, d_date, n) ==
    LET cte == total_picks_cte(f_order_picks, d_date, {})
    IN  {SetToBag(where_rank_le(cte, rank, n)) : rank \in row_number(cte, {"week"})}

\* The parameter n is overwritten with 10 at the top of the function.
top_n_products_weekly_w_drill_down(f_order_picks, d_date, drill_down, n) ==
    LET n_assigned == 10
        cte == total_picks_cte(f_order_picks, d_date, {drill_down})
    IN  {SetToBag(where_rank_le(cte, rank, n_assigned)) :
            rank \in row_number(cte, {"week", drill_down})}

---------------------------------------------------------------------------
(* pick_throughput and pick_throughput_w_drill_down                        *)

\* hourly_agg_cte: sum(pick_volume) grouped by pick_date, the hour of
\* pick_timestamp and the columns of group_cols.
hourly_agg_cte(f_order_picks, group_cols) ==
    LET key(r) ==
            [c \in {"pick_date", "pick_hour"} \cup group_cols |->
                IF c = "pick_hour" THEN dt_hour(r.pick_timestamp) ELSE r[c]]
        InGroup(k) == SelectSeq(f_order_picks, LAMBDA r : key(r) = k)
    IN  {WithColumn(k, "pick_volume", sum_pick_volume(InGroup(k))) :
            k \in {key(r) : r \in Range(f_order_picks)}}

\* round(x, 2) of the non-negative quotient num / den, in hundredths:
\* halves are rounded away from zero.
round_2(num, den) == (200 * num + den) \div (2 * den)

\* The query returns hourly_agg_cte.  Its second CTE, weekly_avg, selects
\* f_order_picks.origin from a FROM clause without f_order_picks and is
\* never referenced.
pick_throughput(f_order_picks, d_date) == SetToBag(hourly_agg_cte(f_order_picks, {}))

\* weekly_avg: hourly_agg_cte left join d_date on pick_date = date, grouped
\* by d_date.week and the drill-down column, with round(avg(pick_volume), 2)
\* (kept in hundredths).
weekly_avg(hourly, d_date, drill_down) ==
    LET joined == LeftJoin(hourly, DOMAIN d_date,
                           {jp \in hourly \X DOMAIN d_date :
                               jp[1].pick_date = d_date[jp[2]].date})
        key(pr) == WithColumn([week |-> d_date_col(d_date, pr[2], "week")],
                              drill_down, pr[1][drill_down])
        InGroup(k) == {pr \in joined : key(pr) = k}
        volumes(k) == SumFn([pr \in InGroup(k) |-> pr[1].pick_volume])
    IN  {WithColumn(k, "weekly_pick_throughput_avg",
                    round_2(volumes(k), Cardinality(InGroup(k)))) :
            k \in {key(pr) : pr \in joined}}

\* The query ends with "select * from weekly_avg".
pick_throughput_w_drill_down(f_order_picks, d_date, drill_down) ==
    SetToBag(weekly_avg(hourly_agg_cte(f_order_picks, {drill_down}),
                        d_date, drill_down))

---------------------------------------------------------------------------
(* order_count_by_type                                                     *)

\* cte_48 / cte_46: f_order_picks left join d_date on pick_date = date,
\* restricted to one origin, grouped by d_date.week, with
\* COUNT(DISTINCT(sk_order_id)) as order_volume.
order_volume_by_week(f_order_picks, d_date, origin) ==
    LET joined == LeftJoin(DOMAIN f_order_picks, DOMAIN d_date,
                           {jp \in (DOMAIN f_order_picks) \X (DOMAIN d_date) :
                               f_order_picks[jp[1]].pick_date = d_date[jp[2]].date})
        kept == {pr \in joined : f_order_picks[pr[1]].origin = origin}
        week(pr) == d_date_col(d_date, pr[2], "week")
    IN  {[week |-> w,
          order_volume |->
              Cardinality({f_order_picks[pr[1]].sk_order_id :
                              pr \in {x \in kept : week(x) = w}})] :
            w \in {week(pr) : pr \in kept}}

\* L FULL OUTER JOIN R ON on: every matching pair, every l without a match
\* beside NULL and every r without a match beside NULL.
FullOuterJoin(L, R, on) ==
    {<<Some(pr[1]), Some(pr[2])>> : pr \in on \cap (L \X R)}
        \cup {<<Some(l), NULL>> : l \in {x \in L : \A r \in R : <<x, r>> \notin on}}
        \cup {<<NULL, Some(r)>> : r \in {y \in R : \A l \in L : <<l, y>> \notin on}}

\* round(x, 4) * 100 of the non-negative quotient num / den, in hundredths.
round_4_times_100(num, den) == (20000 * num + den) \div (2 * den)

\* Variant: a denominator that is not positive counts as 1.
ratio_over_at_least_1(num, den) == round_2(num, IF den > 0 THEN den ELSE 1)

\* case when den > 0 then round(num / den, 2) else 0 end, in hundredths.
ratio(num, den) == IF den > 0 THEN round_2(num, den) ELSE 0

order_count_by_type(f_order_picks, d_date) ==
    LET cte_48 == order_volume_by_week(f_order_picks, d_date, 48)
        cte_46 == order_volume_by_week(f_order_picks, d_date, 46)
        joined == FullOuterJoin(cte_48, cte_46,
                                {jp \in cte_48 \X cte_46 :
                                    sql_eq(jp[1].week, jp[2].week)})
        col(side, c) == IF side = NULL THEN NULL
                        ELSE IF c = "week" THEN side[1].week ELSE Some(side[1][c])
        all_orders(pr) ==
            LET v48 == col(pr[1], "order_volume")
                v46 == col(pr[2], "order_volume")
                both == v48 # NULL /\ v46 # NULL
            IN  [week |-> IF col(pr[1], "week") # NULL THEN col(pr[1], "week")
                          ELSE col(pr[2], "week"),
                 order_volume_48 |-> coalesce(v48, 0),
                 order_volume_46 |-> coalesce(v46, 0),
                 total_order_volume |->
                     IF both THEN Some(v48[1] + v46[1]) ELSE NULL,
                 order_percentage_48 |->
                     IF both THEN Some(round_4_times_100(v48[1], v48[1] + v46[1]))
                     ELSE NULL,
                 order_percentage_46 |->
                     IF both THEN Some(round_4_times_100(v46[1], v48[1] + v46[1]))
                     ELSE NULL]
        out(pr) ==
            LET a == all_orders(pr)
            IN  WithColumn(
                    WithColumn(a, "ratio_46_48",
                               ratio(a.order_volume_46, a.order_volume_48)),
                    "ratio_48_46", ratio(a.order_volume_48, a.order_volume_46))
    IN  BagOfMap([pr \in joined |-> out(pr)])

---------------------------------------------------------------------------
(* binned_order_volume                                                     *)

\* The files the script writes straight into the data-mart directory.
DataMartNames ==
    [binned_order_volume        |-> "binned_order_volume.parquet",
     weekly_zscore_distribution |-> "weekly_zscore_distribution.parquet"]

bins   == <<0, 50, 150, 350, 600, 900, 200000>>
labels == <<"mini", "small", "medium", "large", "extra_large", "extreme">>

\* Variant: the intervals hold their left edge and not their right edge.
cut_left_closed(value) ==
    LET hit == {i \in DOMAIN labels : bins[i] <= value /\ value < bins[i + 1]}
    IN  IF hit = {} THEN NULL ELSE Some(labels[CHOOSE i \in hit : TRUE])

\* pd.cut(value, bins, labels): the label of the interval (bins[i], bins[i+1]]
\* that holds the value, missing for a value outside every interval.
cut(value) ==
    LET hit == {i \in DOMAIN labels : bins[i] < value /\ value <= bins[i + 1]}
    IN  IF hit = {} THEN NULL ELSE Some(labels[CHOOSE i \in hit : TRUE])

\* raw_order_df: sum(pick_volume) grouped by pick_date and sk_order_id, with
\* the bin of the sum.
raw_order_df(f_order_picks) ==
    LET key(r) == [pick_date |-> r.pick_date, sk_order_id |-> r.sk_order_id]
        volume(k) == sum_pick_volume(SelectSeq(f_order_picks, LAMBDA r : key(r) = k))
    IN  {[pick_date |-> k.pick_date, sk_order_id |-> k.sk_order_id,
          pick_volume |-> volume(k), bins |-> cut(volume(k))] :
            k \in {key(r) : r \in Range(f_order_picks)}}

\* Variant: one row per order, not grouped by date and bin.
order_volume_per_order(raw) ==
    {[pick_date |-> o.pick_date, bins |-> o.bins, order_volume |-> 1,
      sk_order_id |-> o.sk_order_id] : o \in raw}

\* agg_cte: count(1) of raw_order_df grouped by pick_date and bins.
order_volume_per_bin(raw) ==
    {[pick_date |-> k[1], bins |-> k[2],
      order_volume |->
          Cardinality({o \in raw : o.pick_date = k[1] /\ o.bins = k[2]})] :
        k \in {<<o.pick_date, o.bins>> : o \in raw}}

\* d_date cross join labels_df left join agg_cte on the date and the bin.
binned_order_volume(f_order_picks, d_date) ==
    LET agg_cte == order_volume_per_bin(raw_order_df(f_order_picks))
        crossed == (DOMAIN d_date) \X (DOMAIN labels)
        joined == LeftJoin(crossed, agg_cte,
                           {jp \in crossed \X agg_cte :
                               /\ d_date[jp[1][1]].date = jp[2].pick_date
                               /\ sql_eq(Some(labels[jp[1][2]]), jp[2].bins)})
        out(pr) ==
            [date         |-> d_date[pr[1][1]].date,
             bins         |-> labels[pr[1][2]],
             order_volume |-> IF pr[2] = NULL THEN 0 ELSE pr[2][1].order_volume,
             week         |-> d_date[pr[1][1]].week,
             month        |-> d_date[pr[1][1]].month,
             quarter      |-> d_date[pr[1][1]].quarter,
             year_half    |-> d_date[pr[1][1]].year_half]
    IN  BagOfMap([pr \in joined |-> out(pr)])

---------------------------------------------------------------------------
(* weekly_zscore_distribution                                              *)

\* orders: f_order_picks left join d_date on pick_date = date, grouped by
\* sk_order_id and the period column of d_date, with sum(pick_volume).
orders_cte(f_order_picks, d_date, z_score_group) ==
    LET joined == LeftJoin(DOMAIN f_order_picks, DOMAIN d_date,
                           {jp \in (DOMAIN f_order_picks) \X (DOMAIN d_date) :
                               f_order_picks[jp[1]].pick_date = d_date[jp[2]].date})
        key(pr) == WithColumn([sk_order_id |-> f_order_picks[pr[1]].sk_order_id],
                              z_score_group,
                              d_date_col(d_date, pr[2], z_score_group))
        InGroup(k) == {pr \in joined : key(pr) = k}
    IN  {WithColumn(k, "pick_volume",
                    SumFn([pr \in InGroup(k) |-> f_order_picks[pr[1]].pick_volume])) :
            k \in {key(pr) : pr \in joined}}

\* stddev(pick_volume), the sample standard deviation: missing for a single
\* value, and otherwise kept as the bag of the values it is the deviation
\* of.  It is 0 when these values are all equal.
stddev(volumes) ==
    IF BagCardinality(volumes) < 2 THEN NULL
    ELSE Some([is |-> "stddev", of |-> volumes])

\* The number 1, the default of coalesce(stddev(...), 1).
One == [is |-> "1", of |-> EmptyBag]

IsZero(std) == std.is = "stddev" /\ Cardinality(BagToSet(std.of)) = 1

\* order_stats_for_agg_period: per period, coalesce(avg, 0) kept as the pair
\* <<sum, count>> and coalesce(stddev, 1).
order_stats_for_agg_period(orders, z_score_group) ==
    LET InPeriod(p) == {o \in orders : o[z_score_group] = p}
        volumes(p) == [o \in InPeriod(p) |-> o.pick_volume]
    IN  {[period           |-> p,
          mean_pick_volume |-> <<SumFn(volumes(p)), Cardinality(InPeriod(p))>>,
          std_pick_volume  |-> coalesce(stddev(BagOfMap(volumes(p))), One)] :
            p \in {o[z_score_group] : o \in orders}}

\* What the engine gives for a division by zero: a null or, with IEEE
\* floating-point semantics switched on, a NaN.
ZeroDivision == {"NULL", "NaN"}

\* (pick_volume - mean_pick_volume) / std_pick_volume of an order beside the
\* statistics of its period; null when the order has no statistics row.  A
\* number is kept as the deviation from the mean, as the pair
\* <<count * pick_volume - sum, count>>, and the divisor; a null or a NaN
\* has neither.
zscore(order, stats, zero_division) ==
    LET NotANumber(v) ==
            [value |-> v, deviation |-> <<>>, divisor |-> [is |-> v, of |-> EmptyBag]]
    IN  IF stats = NULL THEN NotANumber("NULL")
        ELSE IF IsZero(stats[1].std_pick_volume) THEN NotANumber(zero_division)
        ELSE LET mean == stats[1].mean_pick_volume
             IN  [value     |-> "number",
                  deviation |-> <<mean[2] * order.pick_volume - mean[1], mean[2]>>,
                  divisor   |-> stats[1].std_pick_volume]

\* z_score_agg: orders left join order_stats_for_agg_period on the period.
weekly_zscore_distribution(f_order_picks, d_date, z_score_group, zero_division) ==
    LET orders == orders_cte(f_order_picks, d_date, z_score_group)
        stats  == order_stats_for_agg_period(orders, z_score_group)
        joined == LeftJoin(orders, stats,
                           {jp \in orders \X stats :
                               sql_eq(jp[1][z_score_group], jp[2].period)})
    IN  BagOfMap([pr \in joined |->
                     WithColumn(pr[1], "zscore", zscore(pr[1], pr[2], zero_division))])

---------------------------------------------------------------------------
(* avg_products_picked_per_order                                           *)

\* Variant: the largest value.
sql_max(values) == CHOOSE v \in values : \A w \in values : w <= v

\* min(column) over the values of one group.
sql_min(values) == CHOOSE v \in values : \A w \in values : v <= w

\* Per sk_order_id: min(pick_date) and count(distinct product_id).
order_distribution_cte(f_order_picks) ==
    LET rows(o) == {i \in DOMAIN f_order_picks : f_order_picks[i].sk_order_id = o}
    IN  {[sk_order_id |-> o,
          order_date  |-> sql_min({f_order_picks[i].pick_date : i \in rows(o)}),
          unique_product_count |->
              Cardinality({f_order_picks[i].product_id : i \in rows(o)})] :
            o \in {f_order_picks[i].sk_order_id : i \in DOMAIN f_order_picks}}

\* daily_distribution: the orders left join d_date on the order date, and
\* avg(unique_product_count) per week, kept as the pair <<sum, count>>.
avg_products_picked_per_order(f_order_picks, d_date) ==
    LET orders == order_distribution_cte(f_order_picks)
        joined == LeftJoin(orders, DOMAIN d_date,
                           {jp \in orders \X (DOMAIN d_date) :
                               jp[1].order_date = d_date[jp[2]].date})
        week(pr)   == d_date_col(d_date, pr[2], "week")
        InWeek(w)  == {pr \in joined : week(pr) = w}
    IN  SetToBag({[week |-> w,
                   avg_products_picked_per_order |->
                       <<SumFn([pr \in InWeek(w) |-> pr[1].unique_product_count]),
                         Cardinality(InWeek(w))>>] :
                     w \in {week(pr) : pr \in joined}})

---------------------------------------------------------------------------
(* warehouse_utilization_per_section and order_mix                         *)

\* Variant: the quotient is cut after four decimals, not rounded.
percentage_truncated(num, den, zero_division) ==
    IF den = 0 THEN [value |-> zero_division, hundredths |-> 0]
    ELSE [value |-> "number", hundredths |-> (((num * 100) \div den) * 100)
                                  + ((((num * 100) % den) * 100) \div den)]

\* round(num / den, 4) * 100 for 0 <= num <= den, in hundredths of a
\* percent and computed by long division; what a division by zero gives is
\* a setting of the engine.
percentage(num, den, zero_division) ==
    IF den = 0 THEN [value |-> zero_division, hundredths |-> 0]
    ELSE LET percents == (num * 100) \div den
             rest     == ((num * 100) % den) * 100
             q        == percents * 100 + rest \div den
         IN  [value |-> "number",
              hundredths |-> IF 2 * (rest % den) >= den THEN q + 1 ELSE q]

\* sum(pick_volume) over the rows of f_order_picks numbered in rows.
sum_of_rows(f_order_picks, rows) ==
    SumFn([i \in rows |-> f_order_picks[i].pick_volume])

\* section_agg and total_agg: the picks left join d_date, summed per (week,
\* warehouse_section) and per week; total_agg left join section_agg on the
\* week, which no row of a null week satisfies.
warehouse_utilization_per_section(d_date, f_order_picks, zero_division) ==
    LET joined == LeftJoin(DOMAIN f_order_picks, DOMAIN d_date,
                           {jp \in (DOMAIN f_order_picks) \X (DOMAIN d_date) :
                               f_order_picks[jp[1]].pick_date = d_date[jp[2]].date})
        week(pr) == d_date_col(d_date, pr[2], "week")
        section(pr) == f_order_picks[pr[1]].warehouse_section
        section_agg ==
            {[week |-> k[1], warehouse_section |-> k[2],
              pick_volume |->
                  sum_of_rows(f_order_picks,
                      {pr[1] : pr \in {x \in joined :
                                          week(x) = k[1] /\ section(x) = k[2]}})] :
                k \in {<<week(pr), section(pr)>> : pr \in joined}}
        total_agg ==
            {[week |-> w,
              pick_volume |->
                  sum_of_rows(f_order_picks,
                      {pr[1] : pr \in {x \in joined : week(x) = w}})] :
                w \in {week(pr) : pr \in joined}}
        result == LeftJoin(total_agg, section_agg,
                           {jp \in total_agg \X section_agg :
                               sql_eq(jp[1].week, jp[2].week)})
    IN  BagOfMap([pr \in result |->
            [week |-> pr[1].week,
             warehouse_section |->
                 IF pr[2] = NULL THEN NULL ELSE Some(pr[2][1].warehouse_section),
             section_utilization |->
                 percentage(IF pr[2] = NULL THEN 0 ELSE pr[2][1].pick_volume,
                            pr[1].pick_volume, zero_division)]])

\* pick_vol_per_order_per_section left join pick_vol_per_order on the order.
order_mix(f_order_picks, zero_division) ==
    LET of_order(o) ==
            {i \in DOMAIN f_order_picks : f_order_picks[i].sk_order_id = o}
        of_section(o, s) ==
            {i \in of_order(o) : f_order_picks[i].warehouse_section = s}
        ps == {[sk_order_id |-> k[1], warehouse_section |-> k[2],
                sum_pick_volume |->
                    sum_of_rows(f_order_picks, of_section(k[1], k[2]))] :
                  k \in {<<f_order_picks[i].sk_order_id,
                           f_order_picks[i].warehouse_section>> :
                            i \in DOMAIN f_order_picks}}
        po(o) == [order_date |->
                      sql_min({f_order_picks[i].pick_date : i \in of_order(o)}),
                  sum_pick_volume |-> sum_of_rows(f_order_picks, of_order(o))]
    IN  BagOfMap([r \in ps |->
            [order_date |-> po(r.sk_order_id).order_date,
             sk_order_id |-> r.sk_order_id,
             warehouse_section |-> r.warehouse_section,
             section_pick_percentage |->
                 percentage(r.sum_pick_volume, po(r.sk_order_id).sum_pick_volume,
                            zero_division)]])

---------------------------------------------------------------------------
(* Inputs: the staged tables the curation stage may find                   *)

\* Largest number of rows of a staged pick-events table.
MaxPickRows == 2

Origins        == {46, 48}
OrderNumbers   == {"A1", "A1_2019"}
PickVolumes    == {-5, 0, 10}
PickTimestamps == {Timestamp(2019, 12, 31, 23),
                   Timestamp(2020, 1, 1, 8),
                   Timestamp(2020, 1, 2, 9)}

\* A staged pick event: stage_pick_data derives pick_date from the timestamp.
staged_pick(product_id, origin, order_number, pick_volume, pick_timestamp) ==
    [product_id        |-> product_id,
     warehouse_section |-> "S1",
     origin            |-> origin,
     order_number      |-> order_number,
     position_in_order |-> "1",
     pick_volume       |-> pick_volume,
     quantity_unit     |-> "ST",
     pick_timestamp    |-> pick_timestamp,
     pick_date         |-> dt_date(pick_timestamp)]

PickRows ==
    {staged_pick("P1", o, n, v, t) :
        o \in Origins, n \in OrderNumbers, v \in PickVolumes, t \in PickTimestamps}

PickTables == UNION {[1..n -> PickRows] : n \in 0..MaxPickRows}

ProductRows ==
    {[product_id |-> "P1", description |-> "cable", product_group |-> "G1"],
     [product_id |-> "P2", description |-> "switch", product_group |-> "G2"]}

ProductTables ==
    {<<>>} \cup {<<r>> : r \in ProductRows}
           \cup {<<r1, r2>> : r1 \in ProductRows, r2 \in ProductRows}

SectionRows ==
    {[abbreviation |-> "S1", description |-> "shelf", group |-> "A",
      pick_reference |-> "R1"]}

SectionTables == {<<>>} \cup {<<r>> : r \in SectionRows}

\* The table the fact curator reads when the reference tables are varied.
DefaultPicks ==
    <<staged_pick("P1", 46, "A1", 10, Timestamp(2020, 1, 1, 8)),
      staged_pick("P2", 48, "A1", -5, Timestamp(2020, 1, 2, 9)),
      staged_pick("P1", 46, "A1", 0, Timestamp(2020, 1, 2, 9))>>

DefaultProducts == <<[product_id |-> "P1", description |-> "cable",
                      product_group |-> "G1"]>>

\* The columns of the staged pick events that the curation script and the
\* merge of the data-mart script look up by name.
RequiredPickColumns ==
    {"product_id", "origin", "pick_volume", "order_number", "pick_timestamp"}

\* DataFrame.drop(columns=column)
drop(df, column) ==
    [i \in DOMAIN df |-> [c \in (DOMAIN df[i]) \ {column} |-> df[i][c]]]

\* The staging directory holding the three staged tables.
StagingDir(picks, products, sections) ==
    [f \in {StagingFileNames.pick_data, StagingFileNames.product_details,
            StagingFileNames.warehouse_section} |->
        CASE f = StagingFileNames.pick_data       -> picks
          [] f = StagingFileNames.product_details -> products
          [] OTHER                                -> sections]

\* A directory from which the files named in missing are absent.
Without(dir, missing) == [f \in (DOMAIN dir) \ missing |-> dir[f]]

\* The date range of the date dimension (arguments of create_d_date).
StartDate == DaysFromCivil(2020, 1, 1)
EndDate   == DaysFromCivil(2020, 1, 2)

---------------------------------------------------------------------------
(* The curation script (src/src/curation.py, __main__)                     *)

Init ==
    /\ \/ /\ failing_write = 0
          /\ \/ \E picks \in PickTables :
                  staging = StagingDir(picks, DefaultProducts, <<>>)
             \/ \E products \in ProductTables, sections \in SectionTables,
                   missing \in SUBSET {StagingFileNames.product_details,
                                       StagingFileNames.warehouse_section} :
                  staging = Without(StagingDir(DefaultPicks, products, sections),
                                    missing)
             \/ staging = Without(StagingDir(<<>>, DefaultProducts, <<>>),
                                  {StagingFileNames.pick_data})
             \/ \E column \in RequiredPickColumns :
                  staging = StagingDir(drop(DefaultPicks, column),
                                       DefaultProducts, <<>>)
       \/ /\ failing_write \in 1..3
          /\ \E picks \in {<<>>, DefaultPicks} :
                staging = StagingDir(picks, DefaultProducts, <<>>)
    /\ curation = NoFiles
    /\ data_mart = NoFiles
    /\ pc_curation = "create_d_date"
    /\ pc_data_mart = "read"
    /\ frames = NoFiles

CreateDDate ==
    /\ pc_curation = "create_d_date"
    /\ curation' = to_parquet(curation, CurationFileNames.d_date,
                              create_d_date(StartDate, EndDate))
    /\ pc_curation' = "curate_pick_data"
    /\ UNCHANGED <<failing_write, staging, data_mart, pc_data_mart, frames>>

\* The columns curate_pick_data looks up in the staged table; looking up a
\* column the table does not have raises a KeyError.
LookedUpPickColumns == {"order_number", "pick_timestamp", "origin", "pick_volume"}

HasColumns(df, columns) == \A i \in DOMAIN df : columns \subseteq DOMAIN df[i]

\* read_parquet raises when the staged file is missing, a column lookup
\* raises when the column is missing, and the script stops.  The three
\* tables are written one after the other; a write that raises (the disk is
\* full, the file cannot be created) stops the script after the writes
\* before it: failing_write is the write that raises (0 when none does) and
\* written is the number of writes that went through.
CuratePickData ==
    /\ pc_curation = "curate_pick_data"
    /\ IF \/ ~Exists(staging, StagingFileNames.pick_data)
          \/ ~HasColumns(staging[StagingFileNames.pick_data], LookedUpPickColumns)
       THEN /\ pc_curation' = "failed"
            /\ UNCHANGED curation
       ELSE \E p \in sort_values(staging[StagingFileNames.pick_data]) :
              LET written  == IF failing_write = 0 THEN 3 ELSE failing_write - 1
                  keyed    == with_sk_order_id(staging[StagingFileNames.pick_data])
                  picks_df == with_sk_position_in_order(keyed, p)
                  error_df == SelectSeq(picks_df, IsError)
                  positive_pick_df == SelectSeq(picks_df, IsPositive)
                  c1 == to_parquet(curation, CurationFileNames.f_pick_errors, error_df)
                  c2 == to_parquet(c1, CurationFileNames.f_returns,
                                   returns_table(picks_df))
                  c3 == to_parquet(c2, CurationFileNames.f_order_picks,
                                   positive_pick_df)
              IN  /\ curation' = <<curation, c1, c2, c3>>[written + 1]
                  /\ pc_curation' = IF written = 3 THEN "create_d_product_details"
                                    ELSE "failed"
    /\ UNCHANGED <<failing_write, staging, data_mart, pc_data_mart, frames>>

CreateDProductDetails ==
    /\ pc_curation = "create_d_product_details"
    /\ IF ~Exists(staging, StagingFileNames.product_details)
       THEN /\ pc_curation' = "failed"
            /\ UNCHANGED curation
       ELSE /\ curation' = to_parquet(curation, CurationFileNames.d_product_details,
                                      staging[StagingFileNames.product_details])
            /\ pc_curation' = "create_d_warehouse_section"
    /\ UNCHANGED <<failing_write, staging, data_mart, pc_data_mart, frames>>

\* The write sits inside the "if stg_df.empty" block.
CreateDWarehouseSection ==
    /\ pc_curation = "create_d_warehouse_section"
    /\ IF ~Exists(staging, StagingFileNames.warehouse_section)
       THEN /\ pc_curation' = "failed"
            /\ UNCHANGED curation
       ELSE LET stg_df == staging[StagingFileNames.warehouse_section]
            IN  /\ curation' =
                     IF stg_df = <<>>
                     THEN to_parquet(curation,
                                     CurationFileNames.d_warehouse_section, stg_df)
                     ELSE curation
                /\ pc_curation' = "done"
    /\ UNCHANGED <<failing_write, staging, data_mart, pc_data_mart, frames>>

---------------------------------------------------------------------------
(* The data-mart script (src/src/data_marts.py, __main__)                  *)

\* The calls of the script after the curated tables are read, in order.
MainCalls ==
    <<[op |-> "total_pick_volume", drill_down |-> ""],
      [op |-> "total_orders_processed", drill_down |-> ""],
      [op |-> "pick_errors", drill_down |-> ""]>>
    \o [i \in DOMAIN common_drill_downs |->
           [op |-> "total_pick_volume", drill_down |-> common_drill_downs[i]]]

\* A call is named like the table it writes: operation, "_", drill-down.
CallName(call) ==
    IF call.drill_down = "" THEN call.op ELSE call.op \o "_" \o call.drill_down

\* Variant: the file is named like the operation, whatever the drill-down.
OutputPath_of_operation(call) == call.op \o "/" \o call.op \o ".parquet"

\* Where a call writes, below the data-mart directory.
OutputPath(call) == call.op \o "/" \o CallName(call) \o ".parquet"

\* Every call of the script, in its order: the eleven tables without a
\* drill-down, then the five tables with a drill-down for each of the
\* common drill-downs.
DataMartCalls ==
    [i \in 1..11 |->
        [op |-> <<"total_pick_volume", "total_orders_processed", "pick_errors",
                  "top_n_products_weekly", "avg_products_picked_per_order",
                  "order_count_by_type", "warehouse_utilization_per_section",
                  "pick_throughput", "binned_order_volume",
                  "weekly_zscore_distribution", "order_mix">>[i],
         drill_down |-> ""]]
    \o [k \in 1..(5 * Len(common_drill_downs)) |->
           [op |-> <<"total_pick_volume", "total_orders_processed", "pick_errors",
                     "top_n_products_weekly", "pick_throughput">>[((k - 1) % 5) + 1],
            drill_down |-> common_drill_downs[((k - 1) \div 5) + 1]]]

\* The path a call hands to to_parquet, below the data-mart directory: the
\* two tables named by DataMartNames go straight into the directory.
WritePath(call) ==
    IF call.op \in DOMAIN DataMartNames THEN DataMartNames[call.op]
    ELSE OutputPath(call)

CallAt(pc) == CHOOSE i \in DOMAIN MainCalls : CallName(MainCalls[i]) = pc

AfterCall(pc) ==
    IF CallAt(pc) = Len(MainCalls) THEN "done"
    ELSE CallName(MainCalls[CallAt(pc) + 1])

\* What a statement that raises leaves behind instead of a value.
Raised(error) == [raised |-> error]

\* Variant: a table that is missing is read as an empty table.
read_curated_or_empty(dir) ==
    LET read(name) == IF Exists(dir, CurationFileNames[name])
                      THEN dir[CurationFileNames[name]] ELSE <<>>
    IN  [f_order_picks |-> merge(read("f_order_picks"), read("d_product_details")),
         d_date |-> read("d_date"),
         d_product_details |-> read("d_product_details"),
         d_warehouse_section |-> read("d_warehouse_section"),
         f_returns |-> read("f_returns"),
         f_pick_errors |-> merge(read("f_pick_errors"), read("d_product_details"))]

\* The reads and merges at the top of the script, before its first call.
\* Reading a curated table that does not exist raises, and so does a merge
\* on product_id with a table that has no such column.
read_curated(dir) ==
    IF \E n \in DOMAIN CurationFileNames : ~Exists(dir, CurationFileNames[n])
    THEN Raised("FileNotFoundError")
    ELSE IF \/ ~HasColumns(dir[CurationFileNames.f_order_picks], {"product_id"})
            \/ ~HasColumns(dir[CurationFileNames.f_pick_errors], {"product_id"})
    THEN Raised("KeyError")
    ELSE [f_order_picks |->
              merge(dir[CurationFileNames.f_order_picks],
                    dir[CurationFileNames.d_product_details]),
          d_date |-> dir[CurationFileNames.d_date],
          d_product_details |-> dir[CurationFileNames.d_product_details],
          d_warehouse_section |-> dir[CurationFileNames.d_warehouse_section],
          f_returns |-> dir[CurationFileNames.f_returns],
          f_pick_errors |->
              merge(dir[CurationFileNames.f_pick_errors],
                    dir[CurationFileNames.d_product_details])]

\* The script is started once the curation script has ended.  When a read
\* or a merge raises the script stops, before its first call.
ReadCurated ==
    /\ pc_curation \in {"done", "failed"}
    /\ pc_data_mart = "read"
    /\ LET read == read_curated(curation)
       IN  IF "raised" \in DOMAIN read
           THEN /\ pc_data_mart' = "failed"
                /\ UNCHANGED frames
           ELSE /\ frames' = read
                /\ pc_data_mart' = CallName(MainCalls[1])
    /\ UNCHANGED <<failing_write, staging, curation, data_mart, pc_curation>>

\* One call of the script: the table is computed and written, and the
\* script moves on to its next call.
TotalPickVolume ==
    /\ pc_data_mart = "total_pick_volume"
    /\ data_mart' = to_parquet(data_mart, OutputPath(MainCalls[CallAt(pc_data_mart)]),
                        total_pick_volume(frames.f_order_picks, frames.d_date))
    /\ pc_data_mart' = AfterCall(pc_data_mart)
    /\ UNCHANGED <<failing_write, staging, curation, pc_curation, frames>>

TotalOrdersProcessed ==
    /\ pc_data_mart = "total_orders_processed"
    /\ data_mart' = to_parquet(data_mart, OutputPath(MainCalls[CallAt(pc_data_mart)]),
                        total_orders_processed(frames.f_order_picks, frames.d_date))
    /\ pc_data_mart' = AfterCall(pc_data_mart)
    /\ UNCHANGED <<failing_write, staging, curation, pc_curation, frames>>

PickErrors ==
    /\ pc_data_mart = "pick_errors"
    /\ data_mart' = to_parquet(data_mart, OutputPath(MainCalls[CallAt(pc_data_mart)]),
                        pick_errors(frames.f_order_picks, frames.f_pick_errors,
                                    frames.d_date))
    /\ pc_data_mart' = AfterCall(pc_data_mart)
    /\ UNCHANGED <<failing_write, staging, curation, pc_curation, frames>>

TotalPickVolumeWDrillDown ==
    /\ \E drill_down \in Range(common_drill_downs) :
          /\ pc_data_mart = "total_pick_volume_" \o drill_down
          /\ data_mart' =
                 to_parquet(data_mart, OutputPath(MainCalls[CallAt(pc_data_mart)]),
                     total_pick_volume_w_drill_down(frames.f_order_picks,
                                                    frames.d_date, drill_down))
    /\ pc_data_mart' = AfterCall(pc_data_mart)
    /\ UNCHANGED <<failing_write, staging, curation, pc_curation, frames>>

Next ==
    \/ CreateDDate
    \/ CuratePickData
    \/ CreateDProductDetails
    \/ CreateDWarehouseSection
    \/ ReadCurated
    \/ TotalPickVolume
    \/ TotalOrdersProcessed
    \/ PickErrors
    \/ TotalPickVolumeWDrillDown

Spec == Init /\ [][Next]_vars

---------------------------------------------------------------------------
(* Direct calls of the functions, as the tests of src/test make them: the  *)
(* frames are handed over as arguments and one function is called.         *)

CallProducts   == <<"A", "B">>
CallOrigins    == <<46, 48>>
CallOrders     == <<"O1", "O2">>
CallVolumes    == <<10>>
CallTimestamps == <<Timestamp(2020, 1, 5, 8),
                    Timestamp(2020, 1, 6, 8),
                    Timestamp(2020, 1, 6, 9)>>

\* The product table the picks are merged with.
CallProductDetails ==
    <<[product_id |-> "A", description |-> "cable", product_group |-> "G1"],
      [product_id |-> "B", description |-> "switch", product_group |-> "G2"],
      [product_id |-> "C", description |-> "socket", product_group |-> "G2"]>>

\* A frame of valid picks as the data-mart script holds it: curated, then
\* merged with the product table.
order_picks_frame(staged) == merge(with_sk_order_id(staged), CallProductDetails)

\* The pick events a frame is built from, numbered: every combination of
\* a product, an origin, an order number, a volume and a timestamp.
CallPickRows ==
    LET np == Len(CallProducts)
        no == Len(CallOrigins)
        nn == Len(CallOrders)
        nv == Len(CallVolumes)
        nt == Len(CallTimestamps)
    IN  [i \in 1..(np * no * nn * nv * nt) |->
            LET k == i - 1
            IN  staged_pick(CallProducts[(k % np) + 1],
                            CallOrigins[((k \div np) % no) + 1],
                            CallOrders[((k \div (np * no)) % nn) + 1],
                            CallVolumes[((k \div (np * no * nn)) % nv) + 1],
                            CallTimestamps[(k \div (np * no * nn * nv)) + 1])]

\* No query depends on the order of the rows of its inputs, so the frames
\* are enumerated with their rows in the order of their numbers only.
CallPickTables ==
    {[i \in DOMAIN ix |-> CallPickRows[ix[i]]] :
        ix \in {s \in UNION {[1..k -> DOMAIN CallPickRows] : k \in 0..MaxPickRows} :
                   \A i \in DOMAIN s : i > 1 => s[i - 1] <= s[i]}}

\* Products A, B and C picked 5, 3 and 1 times in one week.
ScenarioPicks ==
    [i \in 1..9 |->
        staged_pick(IF i <= 5 THEN "A" ELSE IF i <= 8 THEN "B" ELSE "C",
                    46, "O1", 10, Timestamp(2020, 1, 6, 8))]

\* Order volumes at the two sides of every edge of the bins, and an order
\* of that volume beside an order of volume 10 on the same day.
EdgeVolumes == {50, 51, 150, 151, 350, 351, 600, 601, 900, 901, 200000, 200001}

EdgePicks(volume) ==
    <<staged_pick("A", 46, "O1", volume, Timestamp(2020, 1, 5, 8)),
      staged_pick("B", 46, "O2", 10, Timestamp(2020, 1, 5, 9))>>

\* Picks of one order in two warehouse sections on 2020-01-06, of volumes
\* that make a small and a large share of the order.
MixVolumes == {1, 10, 30000}

MixPicks(v1, v2) ==
    <<staged_pick("A", 46, "O1", v1, Timestamp(2020, 1, 6, 8)),
      WithColumn(staged_pick("B", 46, "O1", v2, Timestamp(2020, 1, 6, 9)),
                 "warehouse_section", "S2")>>

\* The days the arguments of create_d_date are taken from.
CallDays == DaysFromCivil(2019, 12, 30) .. DaysFromCivil(2020, 1, 6)

\* The last days of the quarters of 2020: a range that starts there runs
\* over the end of a quarter.
QuarterEnds == {DaysFromCivil(2020, 3, 31), DaysFromCivil(2020, 6, 30),
                DaysFromCivil(2020, 9, 30), DaysFromCivil(2020, 12, 31)}

\* The values of n the top-n functions are called with.
TopNs == {1, 2}

CallInit ==
    /\ staging = NoFiles
    /\ curation = NoFiles
    /\ data_mart = NoFiles
    /\ pc_curation = "call"
    /\ pc_data_mart = "wait"
    /\ failing_write = 0
    /\ \/ \E picks \in CallPickTables :
            frames = [f_order_picks |-> order_picks_frame(picks),
                      start_date    |-> DaysFromCivil(2020, 1, 5),
                      end_date      |-> DaysFromCivil(2020, 1, 6)]
       \/ \E start_date \in CallDays, end_date \in CallDays :
            frames = [f_order_picks |-> order_picks_frame(ScenarioPicks),
                      start_date    |-> start_date,
                      end_date      |-> end_date]
       \/ \E volume \in EdgeVolumes :
            frames = [f_order_picks |-> order_picks_frame(EdgePicks(volume)),
                      start_date    |-> DaysFromCivil(2020, 1, 5),
                      end_date      |-> DaysFromCivil(2020, 1, 6)]
       \/ \E v1 \in MixVolumes, v2 \in MixVolumes,
             end_date \in {DaysFromCivil(2020, 1, 5), DaysFromCivil(2020, 1, 6)} :
            frames = [f_order_picks |-> order_picks_frame(MixPicks(v1, v2)),
                      start_date    |-> DaysFromCivil(2020, 1, 5),
                      end_date      |-> end_date]
       \/ \E start_date \in QuarterEnds :
            frames = [f_order_picks |-> order_picks_frame(<<>>),
                      start_date    |-> start_date,
                      end_date      |-> start_date + 1]

\* create_d_date(start_date, end_date): the table is written and returned.
call_create_d_date ==
    /\ pc_curation = "call"
    /\ LET df == create_d_date(frames.start_date, frames.end_date)
       IN  /\ curation' = to_parquet(curation, CurationFileNames.d_date, df)
           /\ frames' = WithColumn(frames, "d_date", df)
    /\ pc_curation' = "returned"
    /\ pc_data_mart' = "call"
    /\ UNCHANGED <<failing_write, staging, data_mart>>

\* A function is called on the frames, or it is called once more on the
\* same frames after it has returned and written the table name.
MayCall(name) ==
    \/ pc_data_mart = "call"
    \/ pc_data_mart = "returned" /\ Exists(data_mart, name)

\* The arguments n and drill_down of a call are kept with the frames.
call_top_n_products_weekly ==
    /\ MayCall(OutputPath([op |-> "top_n_products_weekly", drill_down |-> ""]))
    /\ \E n \in TopNs :
         \E agg_df \in top_n_products_weekly(frames.f_order_picks, frames.d_date, n) :
            /\ data_mart' = to_parquet(data_mart,
                                OutputPath([op |-> "top_n_products_weekly",
                                            drill_down |-> ""]), agg_df)
            /\ frames' = WithColumn(frames, "n", n)
    /\ pc_data_mart' = "returned"
    /\ UNCHANGED <<failing_write, staging, curation, pc_curation>>

call_top_n_products_weekly_w_drill_down ==
    /\ \E n \in TopNs, drill_down \in Range(common_drill_downs) :
         /\ MayCall(OutputPath([op |-> "top_n_products_weekly",
                                drill_down |-> drill_down]))
         /\ \E agg_df \in top_n_products_weekly_w_drill_down(
                              frames.f_order_picks, frames.d_date, drill_down, n) :
              /\ data_mart' = to_parquet(data_mart,
                                  OutputPath([op |-> "top_n_products_weekly",
                                              drill_down |-> drill_down]), agg_df)
              /\ frames' = WithColumn(WithColumn(frames, "n", n),
                                      "drill_down", drill_down)
    /\ pc_data_mart' = "returned"
    /\ UNCHANGED <<failing_write, staging, curation, pc_curation>>

\* Whether the query is rejected for its unreferenced CTE depends on the
\* build of the SQL engine: the call raises before anything is written, or
\* it writes the hourly table, and a build that has accepted the query
\* accepts it again.
call_pick_throughput ==
    /\ MayCall(OutputPath([op |-> "pick_throughput", drill_down |-> ""]))
    /\ \/ /\ pc_data_mart = "call"
          /\ pc_data_mart' = "raised"
          /\ UNCHANGED data_mart
       \/ /\ data_mart' = to_parquet(data_mart,
                              OutputPath([op |-> "pick_throughput", drill_down |-> ""]),
                              pick_throughput(frames.f_order_picks, frames.d_date))
          /\ pc_data_mart' = "returned"
    /\ UNCHANGED <<failing_write, staging, curation, pc_curation, frames>>

call_pick_throughput_w_drill_down ==
    /\ \E drill_down \in Range(common_drill_downs) :
         /\ MayCall(OutputPath([op |-> "pick_throughput",
                                drill_down |-> drill_down]))
         /\ data_mart' = to_parquet(data_mart,
                             OutputPath([op |-> "pick_throughput",
                                         drill_down |-> drill_down]),
                             pick_throughput_w_drill_down(
                                 frames.f_order_picks, frames.d_date, drill_down))
         /\ frames' = WithColumn(frames, "drill_down", drill_down)
    /\ pc_data_mart' = "returned"
    /\ UNCHANGED <<failing_write, staging, curation, pc_curation>>

call_order_count_by_type ==
    /\ MayCall(OutputPath([op |-> "order_count_by_type", drill_down |-> ""]))
    /\ data_mart' = to_parquet(data_mart,
                        OutputPath([op |-> "order_count_by_type", drill_down |-> ""]),
                        order_count_by_type(frames.f_order_picks, frames.d_date))
    /\ pc_data_mart' = "returned"
    /\ UNCHANGED <<failing_write, staging, curation, pc_curation, frames>>

\* The table is written as binned_order_volume.parquet in the data-mart
\* directory itself.
call_binned_order_volume ==
    /\ MayCall(DataMartNames.binned_order_volume)
    /\ data_mart' = to_parquet(data_mart, DataMartNames.binned_order_volume,
                        binned_order_volume(frames.f_order_picks, frames.d_date))
    /\ pc_data_mart' = "returned"
    /\ UNCHANGED <<failing_write, staging, curation, pc_curation, frames>>

\* The table is written as weekly_zscore_distribution.parquet in the
\* data-mart directory itself; z_score_group has its default, "week".  What
\* a division by zero gives is a setting of the engine: it is kept with the
\* frames and is the same when the function is called again.
call_weekly_zscore_distribution ==
    /\ MayCall(DataMartNames.weekly_zscore_distribution)
    /\ \E zero_division \in ZeroDivision :
          /\ "zero_division" \in DOMAIN frames =>
                 zero_division = frames.zero_division
          /\ data_mart' =
                 to_parquet(data_mart, DataMartNames.weekly_zscore_distribution,
                     weekly_zscore_distribution(frames.f_order_picks,
                         frames.d_date, "week", zero_division))
          /\ frames' = WithColumn(frames, "zero_division", zero_division)
    /\ pc_data_mart' = "returned"
    /\ UNCHANGED <<failing_write, staging, curation, pc_curation>>

call_avg_products_picked_per_order ==
    /\ MayCall(OutputPath([op |-> "avg_products_picked_per_order", drill_down |-> ""]))
    /\ data_mart' = to_parquet(data_mart,
                        OutputPath([op |-> "avg_products_picked_per_order",
                                    drill_down |-> ""]),
                        avg_products_picked_per_order(frames.f_order_picks,
                                                      frames.d_date))
    /\ pc_data_mart' = "returned"
    /\ UNCHANGED <<failing_write, staging, curation, pc_curation, frames>>

\* What a division by zero gives is kept with the frames, as above.
call_warehouse_utilization_per_section ==
    /\ MayCall(OutputPath([op |-> "warehouse_utilization_per_section",
                           drill_down |-> ""]))
    /\ \E zero_division \in ZeroDivision :
          /\ "zero_division" \in DOMAIN frames =>
                 zero_division = frames.zero_division
          /\ data_mart' =
                 to_parquet(data_mart,
                     OutputPath([op |-> "warehouse_utilization_per_section",
                                 drill_down |-> ""]),
                     warehouse_utilization_per_section(frames.d_date,
                         frames.f_order_picks, zero_division))
          /\ frames' = WithColumn(frames, "zero_division", zero_division)
    /\ pc_data_mart' = "returned"
    /\ UNCHANGED <<failing_write, staging, curation, pc_curation>>

call_order_mix ==
    /\ MayCall(OutputPath([op |-> "order_mix", drill_down |-> ""]))
    /\ \E zero_division \in ZeroDivision :
          /\ "zero_division" \in DOMAIN frames =>
                 zero_division = frames.zero_division
          /\ data_mart' =
                 to_parquet(data_mart,
                     OutputPath([op |-> "order_mix", drill_down |-> ""]),
                     order_mix(frames.f_order_picks, zero_division))
          /\ frames' = WithColumn(frames, "zero_division", zero_division)
    /\ pc_data_mart' = "returned"
    /\ UNCHANGED <<failing_write, staging, curation, pc_curation>>

CallNext ==
    \/ call_create_d_date
    \/ call_top_n_products_weekly
    \/ call_top_n_products_weekly_w_drill_down
    \/ call_pick_throughput
    \/ call_pick_throughput_w_drill_down
    \/ call_order_count_by_type
    \/ call_binned_order_volume
    \/ call_weekly_zscore_distribution
    \/ call_avg_products_picked_per_order
    \/ call_warehouse_utilization_per_section
    \/ call_order_mix

CallSpec == CallInit /\ [][CallNext]_vars

---------------------------------------------------------------------------
(* Properties of the fact curator                                          *)

PickColumns ==
    {"product_id", "warehouse_section", "origin", "order_number",
     "position_in_order", "pick_volume", "quantity_unit", "pick_timestamp",
     "pick_date"}

\* The three fact tables have been written by curate_pick_data.
FactsWritten ==
    /\ Exists(staging, StagingFileNames.pick_data)
    /\ \A n \in {"f_order_picks", "f_pick_errors", "f_returns"} :
          Exists(curation, CurationFileNames[n])

StagedPicks == staging[StagingFileNames.pick_data]
OrderPicks  == curation[CurationFileNames.f_order_picks]
ErrorPicks  == curation[CurationFileNames.f_pick_errors]
Returns     == curation[CurationFileNames.f_returns]

\* A curated row cut back to the staged columns.
AsStaged(row) == [c \in PickColumns \cap DOMAIN row |-> row[c]]

\* The staged rows a table of curated rows stands for, as a bag.
StagedBag(df) == SeqBag([i \in DOMAIN df |-> AsStaged(df[i])])

\* A row of the returns table with the sign of its volume put back.
ReturnAsStaged(row) == [AsStaged(row) EXCEPT !.pick_volume = 0 - row.pick_volume]

ReturnsBag == SeqBag([i \in DOMAIN Returns |-> ReturnAsStaged(Returns[i])])

\* C1: the valid picks, the errors and the returns split the staged rows:
\* each staged row is in exactly one of the three tables, as often as it is
\* staged, the valid picks being the rows of positive volume, the errors
\* those of volume zero and the returns those of negative volume.
C1_Partition ==
    FactsWritten =>
        LET picks   == StagedBag(OrderPicks)
            errors  == StagedBag(ErrorPicks)
            returns == ReturnsBag
        IN  /\ picks (+) errors (+) returns = SeqBag(StagedPicks)
            /\ BagToSet(picks) \cap BagToSet(errors) = {}
            /\ BagToSet(picks) \cap BagToSet(returns) = {}
            /\ BagToSet(errors) \cap BagToSet(returns) = {}
            /\ \A r \in Range(OrderPicks) : r.pick_volume > 0
            /\ \A r \in Range(ErrorPicks) : r.pick_volume = 0
            /\ \A r \in BagToSet(returns) : r.pick_volume < 0

\* A run in which each of the three tables received a row.
C1_Witness ==
    /\ FactsWritten
    /\ OrderPicks # <<>>
    /\ ErrorPicks # <<>>
    /\ Returns # <<>>

\* C2: the k-th row of the returns table is the k-th staged row of negative
\* volume, and the volume it stores is -1 times the staged one and positive.
C2_ReturnVolume ==
    FactsWritten =>
        LET negative == SelectSeq(StagedPicks, IsReturn)
        IN  /\ Len(Returns) = Len(negative)
            /\ \A k \in DOMAIN Returns :
                  /\ Returns[k].pick_volume = (-1) * negative[k].pick_volume
                  /\ Returns[k].pick_volume > 0
                  /\ \A c \in (PickColumns \cap DOMAIN negative[k]) \ {"pick_volume"} :
                        Returns[k][c] = negative[k][c]

C2_Witness ==
    /\ FactsWritten
    /\ \E k \in DOMAIN Returns : Returns[k].pick_volume = 5

\* C3: every row of the returns table has the columns return_volume,
\* return_timestamp and return_date, and none of pick_volume,
\* pick_timestamp and pick_date.
C3_ReturnsRenamed ==
    FactsWritten =>
        \A r \in Range(Returns) :
            /\ {"return_volume", "return_timestamp", "return_date"} \subseteq DOMAIN r
            /\ {"pick_volume", "pick_timestamp", "pick_date"} \cap DOMAIN r = {}

\* All curated rows, whichever table they went to.
CuratedRows == OrderPicks \o ErrorPicks \o Returns

\* The curated rows of one (sk_order_id, origin) group.
GroupRows(sk, origin) ==
    LET InGroup(r) == r.sk_order_id = sk /\ r.origin = origin
    IN  SelectSeq(CuratedRows, InGroup)

\* C4: in every (sk_order_id, origin) group the position keys are exactly
\* 1..k, k the size of the group, and a row picked strictly earlier than
\* another row of its group has the smaller key.
C4_PositionKeys ==
    FactsWritten =>
        \A r \in Range(CuratedRows) :
            LET rows == GroupRows(r.sk_order_id, r.origin)
            IN  /\ {rows[i].sk_position_in_order : i \in DOMAIN rows} = 1..Len(rows)
                /\ \A i, j \in DOMAIN rows :
                      rows[i].pick_timestamp < rows[j].pick_timestamp
                          => rows[i].sk_position_in_order
                                 < rows[j].sk_position_in_order

\* A group of two rows staged latest first: numbering them needs the sort.
C4_Witness ==
    /\ FactsWritten
    /\ Len(StagedPicks) >= 2
    /\ StagedPicks[1].pick_timestamp > StagedPicks[2].pick_timestamp
    /\ \E r \in Range(CuratedRows) :
          Len(GroupRows(r.sk_order_id, r.origin)) >= 2

\* C5: sk_order_id is the order number, "_" and the year of the pick, and
\* two rows have the same key exactly when they have the same order number
\* and the same pick year.
C5_SurrogateOrderKey ==
    FactsWritten =>
        LET rows == CuratedRows
            year == [i \in DOMAIN rows |-> dt_year(rows[i].pick_date)]
        IN  /\ \A i \in DOMAIN rows :
                  rows[i].sk_order_id
                      = rows[i].order_number \o "_" \o IntToStr(year[i])
            /\ \A i, j \in DOMAIN rows :
                  (rows[i].sk_order_id = rows[j].sk_order_id)
                      <=> /\ rows[i].order_number = rows[j].order_number
                          /\ year[i] = year[j]

\* One order number picked in two years, and an order number that ends like
\* a key.
C5_Witness ==
    /\ FactsWritten
    /\ \E r1, r2 \in Range(CuratedRows) :
          /\ r1.order_number = r2.order_number
          /\ r1.sk_order_id = "A1_2019"
          /\ r2.sk_order_id = "A1_2020"

---------------------------------------------------------------------------
(* Properties of the dimension passthrough                                 *)

\* The function that writes the curated file has returned without raising.
Returned(fn) ==
    CASE fn = "create_d_product_details" ->
             /\ Exists(staging, StagingFileNames.product_details)
             /\ pc_curation \in {"create_d_warehouse_section", "done", "failed"}
             /\ Exists(curation, CurationFileNames.f_order_picks)
      [] fn = "create_d_warehouse_section" -> pc_curation = "done"

\* C6: once a passthrough has read its staged table, the curated table
\* exists and holds exactly the staged rows, empty or not.
C6_Passthrough ==
    /\ Returned("create_d_product_details") =>
          /\ Exists(curation, CurationFileNames.d_product_details)
          /\ curation[CurationFileNames.d_product_details]
                 = staging[StagingFileNames.product_details]
    /\ Returned("create_d_warehouse_section") =>
          /\ Exists(curation, CurationFileNames.d_warehouse_section)
          /\ curation[CurationFileNames.d_warehouse_section]
                 = staging[StagingFileNames.warehouse_section]

---------------------------------------------------------------------------
(* Properties of the aggregations                                          *)

\* The table a call of the data-mart script has written.
Written(op, drill_down) ==
    Exists(data_mart, OutputPath([op |-> op, drill_down |-> drill_down]))

Table(op, drill_down) ==
    data_mart[OutputPath([op |-> op, drill_down |-> drill_down])]

\* The dates of the date dimension and the dates with a valid pick, as the
\* aggregations receive them.
DimDates  == {frames.d_date[i].date : i \in DOMAIN frames.d_date}
PickDates == {r.pick_date : r \in Range(frames.f_order_picks)}

\* The valid picks / the pick errors of date d.
PicksOn(d) ==
    LET OnDate(r) == r.pick_date = d IN SelectSeq(frames.f_order_picks, OnDate)

ErrorsOn(d) ==
    LET OnDate(r) == r.pick_date = d IN SelectSeq(frames.f_pick_errors, OnDate)

RECURSIVE VolumeOf(_)
VolumeOf(rows) ==
    IF rows = <<>> THEN 0 ELSE Head(rows).pick_volume + VolumeOf(Tail(rows))

\* The rows of a result that carry date d, and the volume they add up to.
RowsOfDate(B, d) == {r \in BagToSet(B) : r.date = Some(d)}

RECURSIVE VolumeOfRows(_, _)
VolumeOfRows(B, rows) ==
    IF rows = {} THEN 0
    ELSE LET r == CHOOSE x \in rows : TRUE
         IN  B[r] * r.pick_volume + VolumeOfRows(B, rows \ {r})

\* C7: total_pick_volume has exactly one row for every date of the date
\* dimension, with pick_volume 0 on a date without a valid pick.
C7_EveryDimensionDate ==
    Written("total_pick_volume", "") =>
        LET T == Table("total_pick_volume", "")
        IN  \A d \in DimDates :
               /\ CountWhere(T, {r \in BagToSet(T) : r.date = Some(d)}) = 1
               /\ d \notin PickDates =>
                     \A r \in RowsOfDate(T, d) : r.pick_volume = 0

\* For every date of D: total_pick_volume has one row, carrying the sum of
\* the volumes picked on the date; each drill-down table has one row for
\* every value of the drill-down column picked on the date, carrying the sum
\* over the rows of the date and the value, and no other row for the date;
\* and the drill-down rows of the date add up to the total of the date.
VolumeByDate(D) ==
    /\ Written("total_pick_volume", "") =>
          LET T == Table("total_pick_volume", "")
          IN  \A d \in D :
                 /\ CountWhere(T, {r \in BagToSet(T) : r.date = Some(d)}) = 1
                 /\ \A r \in RowsOfDate(T, d) : r.pick_volume = VolumeOf(PicksOn(d))
    /\ \A drill_down \in Range(common_drill_downs) :
          Written("total_pick_volume", drill_down) =>
             LET T == Table("total_pick_volume", drill_down)
                 Values(d) == {r[drill_down] : r \in Range(PicksOn(d))}
                 Pair(d, v) ==
                     LET Has(r) == r[drill_down] = v IN SelectSeq(PicksOn(d), Has)
             IN  \A d \in D :
                    /\ \A v \in Values(d) :
                          /\ CountWhere(T, {r \in BagToSet(T) :
                                               /\ r.date = Some(d)
                                               /\ r[drill_down] = v}) = 1
                          /\ \A r \in RowsOfDate(T, d) :
                                r[drill_down] = v =>
                                    r.pick_volume = VolumeOf(Pair(d, v))
                    /\ CountWhere(T, {r \in BagToSet(T) : r.date = Some(d)})
                           = Cardinality(Values(d))
                    /\ VolumeOfRows(T, RowsOfDate(T, d)) = VolumeOf(PicksOn(d))

\* C8 as stated: the sums are reported for every date with a valid pick.
C8_EveryPickDate == VolumeByDate(PickDates)

\* C8: the sums are reported for every date of the date dimension with a
\* valid pick.
C8_PickDateOfDimension == VolumeByDate(PickDates \cap DimDates)

\* One date of the dimension picked for two origins, the table by origin
\* written.
C8_Witness ==
    /\ Written("total_pick_volume", "")
    /\ Written("total_pick_volume", "origin")
    /\ \E d \in PickDates \cap DimDates :
          /\ Cardinality({r.origin : r \in Range(PicksOn(d))}) = 2
          /\ VolumeOf(PicksOn(d)) = 20

\* C9: total_orders_processed has exactly one row for every date of the
\* date dimension and no other row; its order_volume is the number of
\* distinct sk_order_id among the valid picks of the date (0 without one).
C9_OrdersProcessed ==
    Written("total_orders_processed", "") =>
        LET T == Table("total_orders_processed", "")
        IN  /\ BagCardinality(T) = Cardinality(DimDates)
            /\ \A d \in DimDates :
                  /\ CountWhere(T, {r \in BagToSet(T) : r.date = d}) = 1
                  /\ \A r \in BagToSet(T) :
                        r.date = d =>
                            r.order_volume =
                                Cardinality({p.sk_order_id : p \in Range(PicksOn(d))})

\* Two picks of one order on one date of the dimension, none on another.
C9_Witness ==
    /\ Written("total_orders_processed", "")
    /\ \E d1, d2 \in DimDates :
          /\ Len(PicksOn(d1)) = 2
          /\ Cardinality({p.sk_order_id : p \in Range(PicksOn(d1))}) = 1
          /\ PicksOn(d2) = <<>>

\* C10: a row of pick_errors for date d carries the number of pick errors
\* of d as total_errors and the number of valid picks of d as total_picks,
\* which is 0 when d has none.
C10_PickErrorCounts ==
    Written("pick_errors", "") =>
        \A r \in BagToSet(Table("pick_errors", "")) :
            \A d \in DimDates :
                r.date = Some(d) =>
                    /\ r.total_errors = Len(ErrorsOn(d))
                    /\ r.total_picks = Some(Len(PicksOn(d)))

---------------------------------------------------------------------------
(* Properties of the top-n products                                        *)

Min(a, b) == IF a <= b THEN a ELSE b

\* The week the date dimension gives to the date of a pick.
WeekOfPick(r) ==
    LET m == {i \in DOMAIN frames.d_date : frames.d_date[i].date = r.pick_date}
    IN  IF m = {} THEN NULL ELSE Some(frames.d_date[CHOOSE i \in m : TRUE].week)

\* T is a top-n table of the picks for the group key (week, cols): every
\* group has min(n, number of its products) rows, one per product kept, each
\* with the number of picks of that product in the group, and no product
\* left out of a group has more picks than a product kept for it.
TopNHolds(T, n, cols) ==
    LET f == frames.f_order_picks
        keys == {"week"} \cup cols
        grp(r) == [c \in keys |-> IF c = "week" THEN WeekOfPick(r) ELSE r[c]]
        groups == {grp(f[i]) : i \in DOMAIN f}
        products(g) == {f[i].product_id : i \in {j \in DOMAIN f : grp(f[j]) = g}}
        picks(g, p) ==
            Cardinality({i \in DOMAIN f : grp(f[i]) = g /\ f[i].product_id = p})
        kept(g) == {r \in BagToSet(T) : [c \in keys |-> r[c]] = g}
        kept_products(g) == {r.product_id : r \in kept(g)}
    IN  /\ \A r \in BagToSet(T) : T[r] = 1 /\ [c \in keys |-> r[c]] \in groups
        /\ \A g \in groups :
              /\ Cardinality(kept(g)) = Min(n, Cardinality(products(g)))
              /\ Cardinality(kept_products(g)) = Cardinality(kept(g))
              /\ \A r \in kept(g) :
                    /\ r.product_id \in products(g)
                    /\ r.total_picks = picks(g, r.product_id)
                    /\ \A p \in products(g) \ kept_products(g) :
                          picks(g, p) <= r.total_picks

\* C11: top_n_products_weekly(n) returns, for every week, min(n, number of
\* products picked that week) rows, each with the number of picks of its
\* product in that week, and no product left out of a week has more picks
\* than a product kept for it.
C11_TopNProductsWeekly ==
    Written("top_n_products_weekly", "") =>
        TopNHolds(Table("top_n_products_weekly", ""), frames.n, {})

\* n = 2 with A, B and C picked 5, 3 and 1 times gives (A, 5) and (B, 3).
C11_Witness ==
    /\ Written("top_n_products_weekly", "")
    /\ frames.n = 2
    /\ frames.f_order_picks = order_picks_frame(ScenarioPicks)
    /\ Table("top_n_products_weekly", "") =
          SetToBag({[week |-> Some("2020_01"), product_id |-> "A", total_picks |-> 5],
                    [week |-> Some("2020_01"), product_id |-> "B", total_picks |-> 3]})

\* C12: top_n_products_weekly_w_drill_down called with n keeps, for every
\* (week, drill-down value), the products of rank <= n: the top-n table of
\* the group key extended by the drill-down column.
C12_TopNDrillDown ==
    \A drill_down \in Range(common_drill_downs) :
        Written("top_n_products_weekly", drill_down) =>
            TopNHolds(Table("top_n_products_weekly", drill_down),
                      frames.n, {drill_down})

---------------------------------------------------------------------------
(* Properties of the pick throughput                                       *)

\* One row per (pick_date, hour of pick_timestamp) and value of the columns
\* of cols, carrying the sum of pick_volume of the picks of that key.
HourlyVolumes(cols) ==
    LET f == frames.f_order_picks
        key(r) == [c \in {"pick_date", "pick_hour"} \cup cols |->
                      IF c = "pick_hour" THEN r.pick_timestamp % 24 ELSE r[c]]
        InGroup(k) == SelectSeq(f, LAMBDA r : key(r) = k)
    IN  SetToBag({WithColumn(k, "pick_volume", VolumeOf(InGroup(k))) :
                     k \in {key(f[i]) : i \in DOMAIN f}})

\* C13: pick_throughput_w_drill_down returns one row per (pick_date, hour of
\* pick_timestamp, drill-down value) carrying the sum of pick_volume of the
\* picks of that triple.
C13_ThroughputDrillDown ==
    \A drill_down \in Range(common_drill_downs) :
        Written("pick_throughput", drill_down) =>
            Table("pick_throughput", drill_down) = HourlyVolumes({drill_down})

---------------------------------------------------------------------------
(* Properties of the order counts by type                                  *)

\* C14: in the result of order_count_by_type, a week with order_volume_48 = 0
\* has ratio_46_48 = 0 and a week with order_volume_46 = 0 has
\* ratio_48_46 = 0: the number 0, not a null.
C14_RatioOfEmptyType ==
    Written("order_count_by_type", "") =>
        \A r \in BagToSet(Table("order_count_by_type", "")) :
            /\ r.order_volume_48 = 0 => r.ratio_46_48 = 0
            /\ r.order_volume_46 = 0 => r.ratio_48_46 = 0

\* A week with orders of one origin only, and a week with orders of both
\* origins whose ratio is not 0.
C14_Witness ==
    /\ Written("order_count_by_type", "")
    /\ \E r \in BagToSet(Table("order_count_by_type", "")) :
          r.week # NULL /\ r.order_volume_48 = 0 /\ r.order_volume_46 > 0
    /\ \E r \in BagToSet(Table("order_count_by_type", "")) :
          r.week # NULL /\ r.order_volume_46 = 0 /\ r.order_volume_48 > 0

---------------------------------------------------------------------------
(* Properties of the binned order volume                                   *)

\* The summed pick volume of every (date, order) of the valid picks.
OrderVolumes ==
    LET f == frames.f_order_picks
        OfOrder(d, o) ==
            SelectSeq(f, LAMBDA r : r.pick_date = d /\ r.sk_order_id = o)
    IN  {VolumeOf(OfOrder(f[i].pick_date, f[i].sk_order_id)) : i \in DOMAIN f}

\* C15: binned_order_volume returns (number of dates of the date dimension)
\* x 6 rows, exactly one for every (date, bin label) pair.
C15_DenseBins ==
    Exists(data_mart, DataMartNames.binned_order_volume) =>
        LET T == data_mart[DataMartNames.binned_order_volume]
        IN  /\ BagCardinality(T) = Len(frames.d_date) * 6
            /\ \A i \in DOMAIN frames.d_date, l \in Range(labels) :
                  CountWhere(T, {r \in BagToSet(T) :
                                    /\ r.date = frames.d_date[i].date
                                    /\ r.bins = l}) = 1

\* A date dimension with dates, a bin that holds an order and an order
\* above the last bin.
C15_Witness ==
    /\ Exists(data_mart, DataMartNames.binned_order_volume)
    /\ Len(frames.d_date) > 0
    /\ \E r \in BagToSet(data_mart[DataMartNames.binned_order_volume]) :
          r.order_volume > 0
    /\ \E v \in OrderVolumes : v > 200000

---------------------------------------------------------------------------
(* Properties of the z-score distribution                                  *)

\* The orders of the z-score table that share the week of row r.
OrdersOfWeek(T, r) == {x \in BagToSet(T) : x.week = r.week}

\* C16: weekly_zscore_distribution yields a defined z-score for every order
\* row; in a week with a single order, or in which every order has the same
\* summed pick volume, the standard deviation used is 1 and the z-score is 0.
C16_ZScoreDefined ==
    Exists(data_mart, DataMartNames.weekly_zscore_distribution) =>
        LET T == data_mart[DataMartNames.weekly_zscore_distribution]
        IN  \A r \in BagToSet(T) :
               /\ r.zscore.value = "number"
               /\ Cardinality({x.pick_volume : x \in OrdersOfWeek(T, r)}) = 1 =>
                     /\ r.zscore.divisor = One
                     /\ r.zscore.deviation[1] = 0

---------------------------------------------------------------------------
(* Properties of the failures of the fact curator                          *)

\* curate_pick_data has ended, by returning or by raising.
CurateEnded == pc_curation \notin {"create_d_date", "curate_pick_data"}

\* The staged pick-events table lacks one of the required columns.
LacksRequiredColumn ==
    /\ Exists(staging, StagingFileNames.pick_data)
    /\ ~HasColumns(staging[StagingFileNames.pick_data], RequiredPickColumns)

\* The fact tables that exist in the curation directory.
FactsPresent ==
    {CurationFileNames.f_pick_errors, CurationFileNames.f_returns,
     CurationFileNames.f_order_picks} \cap DOMAIN curation

\* C17: if the staged pick-events table lacks one of product_id, origin,
\* pick_volume, order_number and pick_timestamp, curate_pick_data fails and
\* writes none of the three fact tables.
C17_MissingColumnIsFatal ==
    LacksRequiredColumn /\ CurateEnded =>
        pc_curation = "failed" /\ FactsPresent = {}

\* C18: when curate_pick_data has ended, either all three fact tables have
\* been written or none of them has.
C18_NoPartialFacts ==
    CurateEnded => Cardinality(FactsPresent) \in {0, 3}

---------------------------------------------------------------------------
(* The data-mart script reads before it aggregates                         *)

MissingCurated(dir) ==
    {n \in DOMAIN CurationFileNames : CurationFileNames[n] \notin DOMAIN dir}

\* C19: when a curated table the data-mart script reads is missing (or all
\* of them, the curation location being empty or absent), the script fails
\* before any aggregation has run and no aggregate is written; and the
\* reads raise for each of the six tables taken away on its own.
C19_ReadsBeforeAggregations ==
    /\ MissingCurated(curation) # {} /\ pc_data_mart # "read" =>
           pc_data_mart = "failed" /\ data_mart = NoFiles /\ frames = NoFiles
    /\ \A n \in DOMAIN CurationFileNames :
           "raised" \in DOMAIN read_curated(Without(curation, {CurationFileNames[n]}))
    /\ "raised" \in DOMAIN read_curated(NoFiles)

\* The script has failed on a curation directory that lacks only the
\* warehouse sections, every other table being there.
C19_Witness ==
    /\ MissingCurated(curation) = {"d_warehouse_section"}
    /\ pc_data_mart = "failed"
    /\ data_mart = NoFiles

---------------------------------------------------------------------------
(* The rows of the date dimension                                          *)

\* C20: create_d_date(start, end) with start <= end returns
\* (end - start).days + 1 rows: every day from start to end is the date of
\* exactly one row, and no row has a date outside of the range.
C20_OneRowPerDay ==
    ({"d_date", "start_date", "end_date"} \subseteq DOMAIN frames
        /\ frames.start_date <= frames.end_date) =>
        LET df == frames.d_date
        IN  /\ Len(df) = frames.end_date - frames.start_date + 1
            /\ \A day \in frames.start_date .. frames.end_date :
                   Cardinality({i \in DOMAIN df : df[i].date = day}) = 1
            /\ \A i \in DOMAIN df :
                   df[i].date \in frames.start_date .. frames.end_date
            /\ curation[CurationFileNames.d_date] = df

\* The dimension was built for a range of several days that runs over the
\* end of a year.
C20_Witness ==
    /\ {"d_date", "start_date", "end_date"} \subseteq DOMAIN frames
    /\ frames.end_date - frames.start_date >= 3
    /\ dt_year(frames.start_date) < dt_year(frames.end_date)
    /\ Len(frames.d_date) = frames.end_date - frames.start_date + 1

---------------------------------------------------------------------------
(* The keys of the date dimension                                          *)

\* The calendar quarter of a month, and the half-year of a quarter.
QuarterOfMonth(m) == CASE m \in 1..3 -> 1 [] m \in 4..6 -> 2
                       [] m \in 7..9 -> 3 [] OTHER -> 4
HalfOfQuarter(q)  == IF q \in {1, 2} THEN 1 ELSE 2

\* C21: in every row of the date dimension, quarter is the year, "_Q" and
\* the calendar quarter of the row's date, and year_half is the year, "_H"
\* and 1 for the quarters 1 and 2, 2 for the quarters 3 and 4; and the row
\* is the row that a run over that single day gives for the date.
C21_QuarterAndHalfYear ==
    "d_date" \in DOMAIN frames =>
        \A i \in DOMAIN frames.d_date :
            LET r == frames.d_date[i]
                c == CivilFromDays(r.date)
                q == QuarterOfMonth(c.month)
            IN  /\ r.quarter = Pad4(c.year) \o "_Q" \o Digits[q + 1]
                /\ r.year_half = Pad4(c.year) \o "_H" \o Digits[HalfOfQuarter(q) + 1]
                /\ r = create_d_date(r.date, r.date)[1]

\* A dimension that holds the last day of the second quarter and the first
\* day of the third, in two different half-years.
C21_Witness ==
    /\ "d_date" \in DOMAIN frames
    /\ \E i, j \in DOMAIN frames.d_date :
          /\ frames.d_date[i].quarter = "2020_Q2"
          /\ frames.d_date[i].year_half = "2020_H1"
          /\ frames.d_date[j].quarter = "2020_Q3"
          /\ frames.d_date[j].year_half = "2020_H2"

\* ISO 8601: the weeks start on Monday and week 1 is the week of the
\* year's first Thursday; a year has 53 weeks when its first or its last
\* day is a Thursday.
IsoWeeksInYear(y) ==
    IF \/ dt_weekday(DaysFromCivil(y, 1, 1)) = 3
       \/ dt_weekday(DaysFromCivil(y, 12, 31)) = 3
    THEN 53 ELSE 52

IsoWeek(day) ==
    LET w == (dt_yday(day) + 1 - (dt_weekday(day) + 1) + 10) \div 7
    IN  IF w < 1 THEN IsoWeeksInYear(dt_year(day) - 1)
        ELSE IF w > IsoWeeksInYear(dt_year(day)) THEN 1
        ELSE w

\* C22: in every row of the date dimension, week is the year, "_" and the
\* ISO week number of the row's date in two digits, so that a day of
\* January in ISO week 1 has the week number 01 and not 00.
C22_IsoWeek ==
    "d_date" \in DOMAIN frames =>
        \A i \in DOMAIN frames.d_date :
            LET r == frames.d_date[i]
            IN  r.week = Pad4(dt_year(r.date)) \o "_" \o Pad2(IsoWeek(r.date))

---------------------------------------------------------------------------
(* Properties of the average number of products per order                  *)

OrderIds == {frames.f_order_picks[i].sk_order_id : i \in DOMAIN frames.f_order_picks}

PicksOfOrder(o) ==
    {i \in DOMAIN frames.f_order_picks : frames.f_order_picks[i].sk_order_id = o}

\* The earliest pick date of an order and the number of its products.
EarliestPick(o) ==
    LET dates == {frames.f_order_picks[i].pick_date : i \in PicksOfOrder(o)}
    IN  CHOOSE d \in dates : \A e \in dates : d <= e

ProductsOfOrder(o) ==
    Cardinality({frames.f_order_picks[i].product_id : i \in PicksOfOrder(o)})

\* The week the date dimension gives to a day: none for a day it lacks.
WeekOfDay(day) ==
    LET m == {i \in DOMAIN frames.d_date : frames.d_date[i].date = day}
    IN  IF m = {} THEN NULL ELSE Some(frames.d_date[CHOOSE i \in m : TRUE].week)

\* The table has one row for each week of the earliest picks of the orders
\* (one more, of no week, for the orders picked first on a day the date
\* dimension lacks) and its value is the sum of the numbers of products of
\* the orders of the week over the number of these orders.
MeanPerWeekOfEarliestPick ==
    LET T == Table("avg_products_picked_per_order", "")
        OrdersOfWeekKey(w) == {o \in OrderIds : WeekOfDay(EarliestPick(o)) = w}
    IN  /\ {r.week : r \in BagToSet(T)}
               = {WeekOfDay(EarliestPick(o)) : o \in OrderIds}
        /\ \A r \in BagToSet(T) :
              /\ CountWhere(T, {x \in BagToSet(T) : x.week = r.week}) = 1
              /\ r.avg_products_picked_per_order =
                     <<SumFn([o \in OrdersOfWeekKey(r.week) |-> ProductsOfOrder(o)]),
                       Cardinality(OrdersOfWeekKey(r.week))>>

\* C23 as stated: every order is attributed to the week of its earliest
\* pick date, and a week's value is the mean of the numbers of products of
\* its orders.
C23_EveryOrderHasItsWeek ==
    Written("avg_products_picked_per_order", "") =>
        /\ MeanPerWeekOfEarliestPick
        /\ \A o \in OrderIds :
              WeekOfDay(EarliestPick(o)) = Some(d_date_row(EarliestPick(o)).week)

\* C23: every order whose earliest pick date is a date of the date
\* dimension is attributed to the week of that date and to no other, the
\* orders picked first on a day the dimension lacks are attributed to one
\* row of no week, and a row's value is the mean, over the orders
\* attributed to it, of the number of distinct products of the order.
C23_WeekOfEarliestPick ==
    Written("avg_products_picked_per_order", "") =>
        /\ MeanPerWeekOfEarliestPick
        /\ \A o \in OrderIds :
              (\E i \in DOMAIN frames.d_date :
                    frames.d_date[i].date = EarliestPick(o))
                  => WeekOfDay(EarliestPick(o))
                         = Some(d_date_row(EarliestPick(o)).week)

\* An order picked in the weeks 2020_00 and 2020_01, two products in all,
\* is the only order of the week 2020_00.
C23_Witness ==
    /\ Written("avg_products_picked_per_order", "")
    /\ \E o \in OrderIds :
          /\ {WeekOfDay(frames.f_order_picks[i].pick_date) : i \in PicksOfOrder(o)}
                 = {Some("2020_00"), Some("2020_01")}
          /\ ProductsOfOrder(o) = 2
    /\ Table("avg_products_picked_per_order", "") =
          SetToBag({[week |-> Some("2020_00"),
                     avg_products_picked_per_order |-> <<2, 1>>]})

---------------------------------------------------------------------------
(* Running an aggregation again                                            *)

\* C24, for the aggregations of the data-mart stage: a function that has
\* written its table and is called again with the same frames and the same
\* arguments leaves the data-mart directory as it was, the same tables with
\* the same contents.
C24_RerunLeavesTables ==
    [][(pc_data_mart = "returned" /\ pc_data_mart' = "returned" /\ frames' = frames)
           => data_mart' = data_mart]_vars

---------------------------------------------------------------------------
(* The two scripts run one after the other                                 *)

\* The three staged tables are there, with their columns and with rows, and
\* no write fails.
StagedReadableAndNonEmpty ==
    /\ failing_write = 0
    /\ \A n \in DOMAIN StagingFileNames :
          /\ Exists(staging, StagingFileNames[n])
          /\ staging[StagingFileNames[n]] # <<>>
    /\ HasColumns(staging[StagingFileNames.pick_data], RequiredPickColumns)

\* C25: on readable and non-empty staged tables the curation script does
\* not fail and, when it has ended, every curated table the data-mart
\* script reads is written; the data-mart script does not fail.
C25_RunsToCompletion ==
    StagedReadableAndNonEmpty =>
        /\ pc_curation # "failed"
        /\ pc_curation = "done" => MissingCurated(curation) = {}
        /\ pc_data_mart # "failed"

---------------------------------------------------------------------------
(* The totals and percentages of the order counts by type                  *)

\* C26: in every row of the result of order_count_by_type, also of a week
\* in which only one of the origins 46 and 48 has orders,
\* total_order_volume is order_volume_46 + order_volume_48 and the two
\* percentages are not null.
C26_TotalAndPercentages ==
    Written("order_count_by_type", "") =>
        \A r \in BagToSet(Table("order_count_by_type", "")) :
            /\ r.total_order_volume = Some(r.order_volume_46 + r.order_volume_48)
            /\ r.order_percentage_46 # NULL
            /\ r.order_percentage_48 # NULL

---------------------------------------------------------------------------
(* The bins of the order volumes                                           *)

\* The bounds of the six bins: above the first and up to the second.
BinBounds ==
    [mini        |-> <<0, 50>>,    small       |-> <<50, 150>>,
     medium      |-> <<150, 350>>, large       |-> <<350, 600>>,
     extra_large |-> <<600, 900>>, extreme     |-> <<900, 200000>>]

\* The (date, order) pairs of the valid picks and their summed volumes.
DailyOrders ==
    {<<frames.f_order_picks[i].pick_date, frames.f_order_picks[i].sk_order_id>> :
        i \in DOMAIN frames.f_order_picks}

DailyVolume(o) ==
    VolumeOf(SelectSeq(frames.f_order_picks,
                       LAMBDA r : r.pick_date = o[1] /\ r.sk_order_id = o[2]))

\* C27: for every date of the date dimension and every bin, order_volume is
\* the number of (pick_date, sk_order_id) pairs of the date whose summed
\* pick volume v lies above the lower and up to the upper bound of the bin
\* (0 < v <= 50 mini, ..., 900 < v <= 200000 extreme); no pair is counted
\* in two bins and the six values of a date sum to the number of its orders
\* with 0 < v <= 200000.
C27_BinOfOrder ==
    Exists(data_mart, DataMartNames.binned_order_volume) =>
        LET T == data_mart[DataMartNames.binned_order_volume]
            InBin(d, l) ==
                {o \in DailyOrders :
                    /\ o[1] = d
                    /\ BinBounds[l][1] < DailyVolume(o)
                    /\ DailyVolume(o) <= BinBounds[l][2]}
            OfDate(d) == {r \in BagToSet(T) : r.date = d}
        IN  \A i \in DOMAIN frames.d_date :
               LET d == frames.d_date[i].date
               IN  /\ \A r \in OfDate(d) :
                         /\ r.bins \in DOMAIN BinBounds
                         /\ r.order_volume = Cardinality(InBin(d, r.bins))
                   /\ \A l1, l2 \in DOMAIN BinBounds :
                         l1 # l2 => InBin(d, l1) \cap InBin(d, l2) = {}
                   /\ SumFn([r \in OfDate(d) |-> r.order_volume * T[r]])
                         = Cardinality({o \in DailyOrders :
                                           /\ o[1] = d
                                           /\ 0 < DailyVolume(o)
                                           /\ DailyVolume(o) <= 200000})

\* An order of volume 50 is counted as mini beside an order of volume 10,
\* and an order of volume 200000 is counted as extreme.
C27_Witness ==
    /\ Exists(data_mart, DataMartNames.binned_order_volume)
    /\ \E o \in DailyOrders : DailyVolume(o) \in {50, 200000}
    /\ \E r \in BagToSet(data_mart[DataMartNames.binned_order_volume]) :
          \/ r.bins = "mini" /\ r.order_volume = 2
          \/ r.bins = "extreme" /\ r.order_volume = 1

---------------------------------------------------------------------------
(* Products with equal counts at the cut-off of the top n                  *)

\* The picks of product p in week w, by their place in the input.
PicksInWeek(w, p) ==
    {i \in DOMAIN frames.f_order_picks :
        /\ WeekOfPick(frames.f_order_picks[i]) = w
        /\ frames.f_order_picks[i].product_id = p}

\* Product q comes before product p in week w: more picks, or as many and
\* an earlier first pick in the input.
ComesBefore(w, q, p) ==
    LET nq == Cardinality(PicksInWeek(w, q))
        np == Cardinality(PicksInWeek(w, p))
        first(x) == CHOOSE i \in PicksInWeek(w, x) : \A j \in PicksInWeek(w, x) : i <= j
    IN  nq > np \/ (nq = np /\ first(q) < first(p))

\* C28: the table of top_n_products_weekly is determined by the input rows
\* and their order: of the products of a week, the n that come first by
\* number of picks are kept, products with equal numbers in the order of
\* their first pick in the input.
C28_TiesByInputOrder ==
    Written("top_n_products_weekly", "") =>
        LET f == frames.f_order_picks
            weeks == {WeekOfPick(f[i]) : i \in DOMAIN f}
            products(w) == {f[i].product_id : i \in {j \in DOMAIN f : WeekOfPick(f[j]) = w}}
            kept(w) == {p \in products(w) :
                           Cardinality({q \in products(w) \ {p} : ComesBefore(w, q, p)})
                               < frames.n}
        IN  Table("top_n_products_weekly", "") =
                SetToBag(UNION {{[week |-> w, product_id |-> p,
                                  total_picks |-> Cardinality(PicksInWeek(w, p))] :
                                    p \in kept(w)} : w \in weeks})


---------------------------------------------------------------------------
(* The shares of the warehouse sections                                    *)

\* q hundredths of a percent is num / den rounded to four decimals; compared
\* for the totals up to 100000, whose products stay within 32 bits.
IsRoundedShare(q, num, den) ==
    den <= 100000 =>
        /\ (2 * q - 1) * den <= 20000 * num
        /\ 20000 * num < (2 * q + 1) * den

VolumeOfPicks(rows) == SumFn([i \in rows |-> frames.f_order_picks[i].pick_volume])

PicksOfWeek(w) ==
    {i \in DOMAIN frames.f_order_picks :
        WeekOfDay(frames.f_order_picks[i].pick_date) = w}

SectionsOf(rows) == {frames.f_order_picks[i].warehouse_section : i \in rows}

InSection(rows, s) ==
    {i \in rows : frames.f_order_picks[i].warehouse_section = s}

PositiveVolumes ==
    \A i \in DOMAIN frames.f_order_picks : frames.f_order_picks[i].pick_volume > 0

\* The two tables have one row for each section of each week (order); its
\* percentage is a number from lo to 100 and is the share of the section
\* rounded to four decimals, the shares of a week (order) adding up to the
\* positive weekly (order) total.  The picks of the days the date dimension
\* lacks make one row of no week, of no section and of the share 0.
SharesFrom(lo) ==
    /\ Written("warehouse_utilization_per_section", "")
         => LET T == Table("warehouse_utilization_per_section", "")
            IN  /\ {<<r.week, r.warehouse_section>> : r \in BagToSet(T)}
                       = UNION {IF w = NULL THEN {<<NULL, NULL>>}
                                ELSE {<<w, Some(s)>> : s \in SectionsOf(PicksOfWeek(w))} :
                                   w \in {WeekOfDay(d) : d \in PickDates}}
                /\ \A r \in BagToSet(T) :
                      LET total == VolumeOfPicks(PicksOfWeek(r.week))
                          part  == IF r.week = NULL THEN 0
                                   ELSE VolumeOfPicks(InSection(PicksOfWeek(r.week),
                                                                r.warehouse_section[1]))
                      IN  /\ total > 0
                          /\ CountWhere(T, {r}) = 1
                          /\ r.section_utilization.value = "number"
                          /\ r.section_utilization.hundredths \in lo..10000
                          /\ IsRoundedShare(r.section_utilization.hundredths,
                                            part, total)
                          /\ SumFn([s \in SectionsOf(PicksOfWeek(r.week)) |->
                                       VolumeOfPicks(InSection(PicksOfWeek(r.week), s))])
                                 = total
    /\ Written("order_mix", "")
         => LET T == Table("order_mix", "")
            IN  /\ {<<r.sk_order_id, r.warehouse_section>> : r \in BagToSet(T)}
                       = UNION {{<<o, s>> : s \in SectionsOf(PicksOfOrder(o))} :
                                   o \in OrderIds}
                /\ \A r \in BagToSet(T) :
                      LET total == VolumeOfPicks(PicksOfOrder(r.sk_order_id))
                          part  == VolumeOfPicks(InSection(PicksOfOrder(r.sk_order_id),
                                                           r.warehouse_section))
                      IN  /\ total > 0
                          /\ CountWhere(T, {r}) = 1
                          /\ r.section_pick_percentage.value = "number"
                          /\ r.section_pick_percentage.hundredths \in lo..10000
                          /\ IsRoundedShare(r.section_pick_percentage.hundredths,
                                            part, total)
                          /\ SumFn([s \in SectionsOf(PicksOfOrder(r.sk_order_id)) |->
                                       VolumeOfPicks(InSection(PicksOfOrder(r.sk_order_id), s))])
                                 = total

\* C29 as stated: with positive pick volumes no division by zero occurs and
\* every reported percentage of warehouse_utilization_per_section and of
\* order_mix lies in (0, 100].
C29_PercentagesAboveZero ==
    PositiveVolumes =>
        /\ Written("warehouse_utilization_per_section", "") =>
               \A r \in BagToSet(Table("warehouse_utilization_per_section", "")) :
                   /\ r.section_utilization.value = "number"
                   /\ r.section_utilization.hundredths \in 1..10000
        /\ Written("order_mix", "") =>
               \A r \in BagToSet(Table("order_mix", "")) :
                   /\ r.section_pick_percentage.value = "number"
                   /\ r.section_pick_percentage.hundredths \in 1..10000

\* C29: with positive pick volumes the weekly and the order totals are
\* positive, no division by zero occurs, every reported percentage lies in
\* [0, 100] and is the share rounded to four decimals, 0 for a share below
\* 0.005 percent, and the shares of a week of the date dimension (of an
\* order) add up to the whole before rounding; the picks dated outside the
\* date dimension are reported as one row of null week, null section and 0.
C29_RoundedShares == PositiveVolumes => SharesFrom(0)

\* The weekly table written for a week, the order table for an order, whose
\* first section has less than 0.005 percent of the volume.
C29_WeekWitness ==
    /\ Written("warehouse_utilization_per_section", "")
    /\ PositiveVolumes /\ PickDates \subseteq DimDates
    /\ \E r \in BagToSet(Table("warehouse_utilization_per_section", "")) :
          r.section_utilization.hundredths = 0

C29_OrderWitness ==
    /\ Written("order_mix", "")
    /\ PositiveVolumes
    /\ \E r \in BagToSet(Table("order_mix", "")) :
          r.section_pick_percentage.hundredths = 0

C29_Witness == C29_WeekWitness \/ C29_OrderWitness

---------------------------------------------------------------------------
(* The output paths of the data-mart script                                *)

\* The calls the script has completed.
CallsDone ==
    IF pc_data_mart \in {"read", "failed"} THEN 0
    ELSE IF pc_data_mart = "done" THEN Len(MainCalls)
    ELSE CallAt(pc_data_mart) - 1

\* No two calls of the script have the same path, every path is named by
\* the operation and the drill-down, and the calls of a run are among them.
PathsOfTheirOwn ==
    /\ \A i, j \in DOMAIN DataMartCalls :
          WritePath(DataMartCalls[i]) = WritePath(DataMartCalls[j]) => i = j
    /\ \A i \in DOMAIN DataMartCalls :
          LET call == DataMartCalls[i]
          IN  WritePath(call) \in {CallName(call) \o ".parquet",
                                   call.op \o "/" \o CallName(call) \o ".parquet"}
    /\ \A i \in DOMAIN MainCalls : MainCalls[i] \in Range(DataMartCalls)

\* C30: every call of the data-mart script, an operation with a drill-down
\* or with none, writes to a path of its own, named operation, or operation
\* "_" drill-down, with the suffix .parquet; no two calls have the same path,
\* and in a run every completed call has left its own file, so that no table
\* has replaced another.
C30_OwnOutputPath ==
    /\ PathsOfTheirOwn
    /\ Cardinality(DOMAIN data_mart) = CallsDone
    /\ \A i \in 1..CallsDone : Exists(data_mart, WritePath(MainCalls[i]))

\* A run that has made all its calls, with and without a drill-down.
C30_Witness ==
    /\ pc_data_mart = "done"
    /\ \E c \in Range(MainCalls) : c.drill_down # "" /\ Exists(data_mart, WritePath(c))
    /\ \E c \in Range(MainCalls) : c.drill_down = "" /\ Exists(data_mart, WritePath(c))
====
